---- MODULE Spec2Model ----
(***************************************************************************)
(* The scroll-to-geometry narrative engine of MapJourney: the scroll       *)
(* mapping (buildScrollMapping, scrollPxToKm, kmToPx), the per-frame       *)
(* resolution of handleScroll and the cross-fade effect of the panel, and  *)
(* the progress index (progressItems, ProgressBar's active item).          *)
(*                                                                         *)
(* Numbers.  The source computes in IEEE doubles; the model computes the   *)
(* same expressions exactly, in fixed point.  A distance is an integer     *)
(* number of units of 1/KM km, where KM = BASE_PX_PER_KM * SLOW_FACTOR is  *)
(* the number of pixels one kilometre costs inside a dwell zone, so that   *)
(* every integer pixel offset resolves to a whole number of units.  Pixel  *)
(* offsets are integers (whole pixels).  Waypoint distances are drawn on a *)
(* grid of 0.1 km, on which every division of the source is exact (see     *)
(* ExactArithmetic).  Arrays are 1-based: index i of the source is i + 1.  *)
(***************************************************************************)
EXTENDS Integers, Sequences, FiniteSets, TLC

VARIABLES
    snappedPoints,      \* data.snappedPoints: the waypoints, ascending by distance
    scrollMapping,      \* useMemo(() => buildScrollMapping(snappedPoints))
    query,              \* the last application of the resolution to an offset
    scrollTop,          \* scrollerRef.current.scrollTop
    rafRef,             \* rafRef.current: the handle of the last frame requested
    pendingFrames,      \* the animation frames requested and neither run nor cancelled
    activePoiIndex,     \* useState: index of the active waypoint, or null
    sectionVisible,     \* useState
    currentSectionName, \* useState
    displayedPoi,       \* useState: index of the waypoint whose content is shown, or null
    detailVisible,      \* useState
    detailTimerRef,     \* detailTimerRef.current: the handle of the last timer armed
    pendingTimers,      \* the timeouts armed and neither fired nor cleared
    superseded,         \* history: the waypoint of the pending timer that the last
                        \* run of the cross-fade effect cleared, or null
    effectBranch,       \* history: the branch the last run of the effect took
    replacedFrame,      \* history: the frame last requested replaced a pending one
    items,              \* ProgressBar props.items
    pbScrollTop,        \* ProgressBar useState scrollTop
    atBottom,           \* ProgressBar useState atBottom
    galleryPxs,         \* ProgressBar useState galleryPxs: elementId -> measured px
    measureTimer,       \* the timeout of ProgressBar's measuring effect is pending
    animations,         \* the loops of smoothScrollTo that have a frame requested
    frameLog,           \* history: the ticks of the last frame, each loop before and after
    clicks,             \* history: the number of clicks on items so far
    features,           \* the features of labelled_points.geojson
    responses,          \* the outcome of fetching and parsing each data file
    progress,           \* LoadingScreen useState progress
    totalDistance,      \* data.totalDistance: the length of the path
    cursor,             \* the position marker's heading: what set it, and the two
                        \* distances along the path its bearing was taken between
    loadState           \* App: "loading", "loaded" (onLoaded called, MapJourney
                        \* mounted), "error", or "unmounted" (MapJourney removed)

\* ------------------------------------------------------------ constants
POI_WINDOW_KM == 10
BASE_PX_PER_KM == 100
SLOW_FACTOR == 2
\* null, for an index (indices are 1-based) and for a handle (handles are >= 1)
null == 0

\* units of distance per kilometre (fixed-point resolution of a `number`)
KM == BASE_PX_PER_KM * SLOW_FACTOR
\* const STEP_KM = 0.2
STEP_KM == KM \div 5
\* one tenth of a kilometre, the grid of the waypoint distances drawn in Init
Tenth == KM \div 10

Min(a, b) == IF a <= b THEN a ELSE b
Max(a, b) == IF a >= b THEN a ELSE b
Abs(x) == IF x >= 0 THEN x ELSE -x
\* Math.ceil(a / b) for a >= 0, b > 0
Ceil(a, b) == (a + b - 1) \div b

\* ------------------------------------------------------------ scroll mapping
\* (mutant) the dwell test skips the first and the last waypoint, as the
\* activation does
inSlowZone_InnerOnly(midKm, snapped) ==
    \E j \in 2..(Len(snapped) - 1) :
        Abs(midKm - snapped[j].distanceAlongPath) <= POI_WINDOW_KM * KM

\* the inner loop of buildScrollMapping: is midKm within POI_WINDOW_KM of any point
inSlowZone(midKm, snapped) ==
    \E j \in 1..Len(snapped) :
        Abs(midKm - snapped[j].distanceAlongPath) <= POI_WINDOW_KM * KM

\* (mutant) no step at all over a zero span
numStepsOf_NoFloor(snapped) ==
    LET startKm == snapped[1].distanceAlongPath
        endKm == snapped[Len(snapped)].distanceAlongPath
    IN  Ceil(endKm - startKm, STEP_KM)

\* const numSteps = Math.max(Math.ceil((endKm - startKm) / STEP_KM), 1)
numStepsOf(snapped) ==
    LET startKm == snapped[1].distanceAlongPath
        endKm == snapped[Len(snapped)].distanceAlongPath
    IN  Max(Ceil(endKm - startKm, STEP_KM), 1)

\* cumPx += segKm * BASE_PX_PER_KM * (inSlowZone ? SLOW_FACTOR : 1)
stepCost(segKm, slow) ==
    (segKm * BASE_PX_PER_KM * (IF slow THEN SLOW_FACTOR ELSE 1)) \div KM

\* (mutant) Math.max for Math.min in the clamp of the sample distance
buildStep_MaxForMin(snapped, i, cumPx) ==
    LET startKm == snapped[1].distanceAlongPath
        endKm == snapped[Len(snapped)].distanceAlongPath
        numSteps == numStepsOf(snapped)
        km == startKm + Max(i * STEP_KM, endKm - startKm)
        nextKm == startKm + Max((i + 1) * STEP_KM, endKm - startKm)
        midKm == (km + nextKm) \div 2
        segKm == nextKm - km
    IN  [kmSamples |-> <<km>>,
         pxCumulative |-> <<cumPx>>,
         cumPx |-> IF i < numSteps
                   THEN cumPx + stepCost(segKm, inSlowZone(midKm, snapped))
                   ELSE cumPx]

\* one iteration i (0-based as in the source) of the for loop of
\* buildScrollMapping, entered with cumPx: the samples it pushes and the cumPx
\* it leaves
buildStep(snapped, i, cumPx) ==
    LET startKm == snapped[1].distanceAlongPath
        endKm == snapped[Len(snapped)].distanceAlongPath
        numSteps == numStepsOf(snapped)
        km == startKm + Min(i * STEP_KM, endKm - startKm)
        nextKm == startKm + Min((i + 1) * STEP_KM, endKm - startKm)
        midKm == (km + nextKm) \div 2
        segKm == nextKm - km
    IN  [kmSamples |-> <<km>>,
         pxCumulative |-> <<cumPx>>,
         cumPx |-> IF i < numSteps
                   THEN cumPx + stepCost(segKm, inSlowZone(midKm, snapped))
                   ELSE cumPx]

\* iterations lo..hi of the for loop, in order, entered with cumPx (the range is
\* split in halves so that the depth of the evaluation stays logarithmic)
RECURSIVE buildLoop(_, _, _, _)
buildLoop(snapped, lo, hi, cumPx) ==
    IF lo = hi THEN buildStep(snapped, lo, cumPx)
    ELSE LET mid == (lo + hi) \div 2
             left == buildLoop(snapped, lo, mid, cumPx)
             right == buildLoop(snapped, mid + 1, hi, left.cumPx)
         IN  [kmSamples |-> left.kmSamples \o right.kmSamples,
              pxCumulative |-> left.pxCumulative \o right.pxCumulative,
              cumPx |-> right.cumPx]

\* (mutant) no tail: the scroll range ends at the last sample
buildScrollMapping_NoTail(snapped) ==
    IF Len(snapped) = 0
    THEN [kmSamples |-> <<>>, pxCumulative |-> <<>>, totalPx |-> 0]
    ELSE LET r == buildLoop(snapped, 0, numStepsOf(snapped), 0)
         IN  [kmSamples |-> r.kmSamples,
              pxCumulative |-> r.pxCumulative,
              totalPx |-> r.cumPx]

buildScrollMapping(snapped) ==
    IF Len(snapped) = 0
    THEN [kmSamples |-> <<>>, pxCumulative |-> <<>>, totalPx |-> 0]
    ELSE LET r == buildLoop(snapped, 0, numStepsOf(snapped), 0)
         IN  [kmSamples |-> r.kmSamples,
              pxCumulative |-> r.pxCumulative,
              totalPx |-> r.cumPx + BASE_PX_PER_KM \div 2]

\* (mutant) the search compares with < for <=
RECURSIVE bisect_Strict(_, _, _, _)
bisect_Strict(arr, x, lo, hi) ==
    IF lo < hi - 1
    THEN LET mid == (lo + hi) \div 2
         IN  IF arr[mid] < x THEN bisect_Strict(arr, x, mid, hi)
                             ELSE bisect_Strict(arr, x, lo, mid)
    ELSE <<lo, hi>>

\* the while loop shared by scrollPxToKm and kmToPx: <<lo, hi>> when it ends
RECURSIVE bisect(_, _, _, _)
bisect(arr, x, lo, hi) ==
    IF lo < hi - 1
    THEN LET mid == (lo + hi) \div 2
         IN  IF arr[mid] <= x THEN bisect(arr, x, mid, hi)
                              ELSE bisect(arr, x, lo, mid)
    ELSE <<lo, hi>>

\* (mutant) an offset <= 0 resolves to 0 instead of the first sample
scrollPxToKm_ZeroAtStart(px, mapping) ==
    LET kmSamples == mapping.kmSamples
        pxCumulative == mapping.pxCumulative
    IN  IF Len(kmSamples) = 0 THEN 0
        ELSE IF px <= 0 THEN 0
        ELSE IF px >= pxCumulative[Len(pxCumulative)] THEN kmSamples[Len(kmSamples)]
        ELSE LET b == bisect(pxCumulative, px, 1, Len(pxCumulative))
             IN  kmSamples[b[1]]
                 + ((px - pxCumulative[b[1]]) * (kmSamples[b[2]] - kmSamples[b[1]]))
                   \div (pxCumulative[b[2]] - pxCumulative[b[1]])

\* (mutant) past the last sample the distance goes on at the base rate
scrollPxToKm_Extrapolate(px, mapping) ==
    LET kmSamples == mapping.kmSamples
        pxCumulative == mapping.pxCumulative
    IN  IF Len(kmSamples) = 0 THEN 0
        ELSE IF px <= 0 THEN kmSamples[1]
        ELSE IF px >= pxCumulative[Len(pxCumulative)]
        THEN kmSamples[Len(kmSamples)]
             + ((px - pxCumulative[Len(pxCumulative)]) * KM) \div BASE_PX_PER_KM
        ELSE LET b == bisect(pxCumulative, px, 1, Len(pxCumulative))
             IN  kmSamples[b[1]]
                 + ((px - pxCumulative[b[1]]) * (kmSamples[b[2]] - kmSamples[b[1]]))
                   \div (pxCumulative[b[2]] - pxCumulative[b[1]])

scrollPxToKm(px, mapping) ==
    LET kmSamples == mapping.kmSamples
        pxCumulative == mapping.pxCumulative
    IN  IF Len(kmSamples) = 0 THEN 0
        ELSE IF px <= 0 THEN kmSamples[1]
        ELSE IF px >= pxCumulative[Len(pxCumulative)] THEN kmSamples[Len(kmSamples)]
        ELSE LET b == bisect(pxCumulative, px, 1, Len(pxCumulative))
                 lo == b[1]
                 hi == b[2]
             IN  kmSamples[lo]
                 + ((px - pxCumulative[lo]) * (kmSamples[hi] - kmSamples[lo]))
                   \div (pxCumulative[hi] - pxCumulative[lo])

\* (mutant) the distance is converted at the base rate, the dwell zones forgotten
kmToPx_Linear(targetKm, mapping) ==
    IF Len(mapping.kmSamples) = 0 THEN 0
    ELSE ((targetKm - mapping.kmSamples[1]) * BASE_PX_PER_KM) \div KM

kmToPx(targetKm, mapping) ==
    LET kmSamples == mapping.kmSamples
        pxCumulative == mapping.pxCumulative
        last == Len(kmSamples)
    IN  IF Len(kmSamples) = 0 THEN 0
        ELSE IF targetKm <= kmSamples[1] THEN pxCumulative[1]
        ELSE IF targetKm >= kmSamples[last] THEN pxCumulative[last]
        ELSE LET b == bisect(kmSamples, targetKm, 1, last)
                 lo == b[1]
                 hi == b[2]
             IN  pxCumulative[lo]
                 + ((targetKm - kmSamples[lo]) * (pxCumulative[hi] - pxCumulative[lo]))
                   \div (kmSamples[hi] - kmSamples[lo])

\* ------------------------------------------------------------ resolution
\* POIs eligible for panel activation (exclude first and last)
innerPoints(snapped) ==
    IF Len(snapped) > 2 THEN SubSeq(snapped, 2, Len(snapped) - 1) ELSE snapped

\* (mutant) every named point opens a range of its own: no merge
RECURSIVE rangesLoop_NoMerge(_, _, _)
rangesLoop_NoMerge(inner, k, ranges) ==
    IF k > Len(inner) THEN ranges
    ELSE LET sp == inner[k]
         IN  IF sp.sectionName = "" THEN rangesLoop_NoMerge(inner, k + 1, ranges)
             ELSE rangesLoop_NoMerge(inner, k + 1,
                      Append(ranges,
                          [sectionName |-> sp.sectionName,
                           minKm |-> sp.distanceAlongPath - POI_WINDOW_KM * KM,
                           maxKm |-> sp.distanceAlongPath + POI_WINDOW_KM * KM]))

\* (mutant) a merge keeps the range's first maxKm instead of extending it
RECURSIVE rangesLoop_NoExtend(_, _, _)
rangesLoop_NoExtend(inner, k, ranges) ==
    IF k > Len(inner) THEN ranges
    ELSE LET sp == inner[k]
             n == Len(ranges)
         IN  IF sp.sectionName = "" THEN rangesLoop_NoExtend(inner, k + 1, ranges)
             ELSE IF n > 0 /\ ranges[n].sectionName = sp.sectionName
             THEN rangesLoop_NoExtend(inner, k + 1, ranges)
             ELSE rangesLoop_NoExtend(inner, k + 1,
                      Append(ranges,
                          [sectionName |-> sp.sectionName,
                           minKm |-> sp.distanceAlongPath - POI_WINDOW_KM * KM,
                           maxKm |-> sp.distanceAlongPath + POI_WINDOW_KM * KM]))

\* the for loop of the sectionRanges memo over inner[k..], entered with ranges
RECURSIVE rangesLoop(_, _, _)
rangesLoop(inner, k, ranges) ==
    IF k > Len(inner) THEN ranges
    ELSE LET sp == inner[k]
             n == Len(ranges)
         IN  IF sp.sectionName = "" THEN rangesLoop(inner, k + 1, ranges)
             ELSE IF n > 0 /\ ranges[n].sectionName = sp.sectionName
             THEN rangesLoop(inner, k + 1,
                      [ranges EXCEPT ![n].maxKm =
                           sp.distanceAlongPath + POI_WINDOW_KM * KM])
             ELSE rangesLoop(inner, k + 1,
                      Append(ranges,
                          [sectionName |-> sp.sectionName,
                           minKm |-> sp.distanceAlongPath - POI_WINDOW_KM * KM,
                           maxKm |-> sp.distanceAlongPath + POI_WINDOW_KM * KM]))

sectionRanges(snapped) == rangesLoop(innerPoints(snapped), 1, <<>>)

\* (mutant) the scan starts at the first waypoint whatever the number of points
firstIdx_NoExclusion(snapped) == 1

firstIdx(snapped) == IF Len(snapped) > 2 THEN 2 ELSE 1
lastIdx(snapped) == IF Len(snapped) > 2 THEN Len(snapped) - 1 ELSE Len(snapped)

\* (mutant) the window is open: < for <=
RECURSIVE activeLoop_Open(_, _, _)
activeLoop_Open(snapped, km, i) ==
    IF i > lastIdx(snapped) THEN null
    ELSE IF Abs(km - snapped[i].distanceAlongPath) < POI_WINDOW_KM * KM THEN i
    ELSE activeLoop_Open(snapped, km, i + 1)

\* Active POI: first innerPoint within +-POI_WINDOW_KM (the for loop from i)
RECURSIVE activeLoop(_, _, _)
activeLoop(snapped, km, i) ==
    IF i > lastIdx(snapped) THEN null
    ELSE IF Abs(km - snapped[i].distanceAlongPath) <= POI_WINDOW_KM * KM THEN i
    ELSE activeLoop(snapped, km, i + 1)

\* (mutant) the last range that holds km wins
RECURSIVE sectionLoop_Last(_, _, _)
sectionLoop_Last(ranges, km, k) ==
    IF k > Len(ranges)
    THEN [newSectionVisible |-> FALSE, newSectionName |-> ""]
    ELSE LET rest == sectionLoop_Last(ranges, km, k + 1)
         IN  IF rest.newSectionVisible THEN rest
             ELSE IF km >= ranges[k].minKm /\ km <= ranges[k].maxKm
             THEN [newSectionVisible |-> TRUE, newSectionName |-> ranges[k].sectionName]
             ELSE rest

\* Section header visibility: the first range that holds km (the for loop from k)
RECURSIVE sectionLoop(_, _, _)
sectionLoop(ranges, km, k) ==
    IF k > Len(ranges)
    THEN [newSectionVisible |-> FALSE, newSectionName |-> ""]
    ELSE IF km >= ranges[k].minKm /\ km <= ranges[k].maxKm
    THEN [newSectionVisible |-> TRUE, newSectionName |-> ranges[k].sectionName]
    ELSE sectionLoop(ranges, km, k + 1)

\* what handleScroll computes from scroller.scrollTop before it sets any state
resolve(top, snapped, mapping) ==
    LET scrollRangePx == mapping.totalPx
        clampedPx == Min(top, scrollRangePx)
        km == scrollPxToKm(clampedPx, mapping)
        sec == sectionLoop(sectionRanges(snapped), km, 1)
    IN  [scrollTop |-> top,
         km |-> km,
         newActive |-> activeLoop(snapped, km, firstIdx(snapped)),
         newSectionVisible |-> sec.newSectionVisible,
         newSectionName |-> sec.newSectionName]

\* ------------------------------------------------------------ journeys
\* the model's bounds: at most MaxPoints waypoints; offsets a multiple of PxStride
MaxPoints == 4
PxStride == 10
\* distances between neighbouring waypoints, in tenths of a km: windows that
\* overlap, windows that are apart; the first waypoint's distance
GapChoices == {71, 250}
StartChoices == {31}
SectionNames == {"", "A", "B"}

RECURSIVE DistanceLists(_)
DistanceLists(n) ==
    IF n = 0 THEN {<<>>}
    ELSE IF n = 1 THEN {<<s * Tenth>> : s \in StartChoices}
    ELSE {Append(l, l[Len(l)] + g * Tenth) : l \in DistanceLists(n - 1), g \in GapChoices}

\* the waypoint lists of n points: ids are unique; every eligible point takes any
\* section name; the two end points of a list of three or more are named "Ends"
Journeys(n) ==
    {[i \in 1..n |-> [narrativeId |-> 100 + i,
                      sectionName |-> IF n > 2 /\ i \in {1, n} THEN "Ends"
                                      ELSE names[i],
                      distanceAlongPath |-> ds[i]]] :
        ds \in DistanceLists(n), names \in [1..n -> SectionNames]}

\* the waypoints at the given distances (in tenths of a km) under the given
\* section names
JourneyOf(tenths, names) ==
    [i \in 1..Len(tenths) |->
        [narrativeId |-> 100 + i,
         sectionName |-> names[i],
         distanceAlongPath |-> tenths[i] * Tenth]]

\* the scenario of the design notes, waypoints at 0, 10 and 25 km
ScenarioJourney == JourneyOf(<<0, 100, 250>>, <<"Ends", "A", "Ends">>)
\* journeys with waypoints at one distance
TiedJourneys ==
    {JourneyOf(<<31, 31>>, <<"A", "A">>),
     JourneyOf(<<31, 102, 102, 352>>, <<"Ends", "A", "B", "Ends">>)}
\* journeys of five waypoints, three of them eligible: two of one section around
\* an unnamed one, each out of the others' windows; three of alternating
\* sections, the windows of the first two overlapping, the third apart
LongJourneys ==
    {JourneyOf(<<31, 102, 352, 602, 673>>, <<"Ends", "A", "", "A", "Ends">>),
     JourneyOf(<<31, 102, 173, 423, 494>>, <<"Ends", "A", "B", "A", "Ends">>)}

AllJourneys ==
    UNION {Journeys(n) : n \in 0..MaxPoints}
        \cup {ScenarioJourney} \cup TiedJourneys \cup LongJourneys

\* the offsets the queries sweep: from below 0, over the scroll range, past its end
FirstOffset == 0 - PxStride
LastOffset(mapping) == (mapping.totalPx \div PxStride + 2) * PxStride

\* the scroll offsets of the engine's scroll events: the bound ScrollStrideK
\* thousand pixels apart, from the top to past the end of the journey
ScrollStrideK == 2
ScrollChoices(mapping) ==
    {k * ScrollStrideK * 1000 : k \in 0..(mapping.totalPx \div (ScrollStrideK * 1000) + 1)}

\* ------------------------------------------------------------ progress index
\* the parts of a pixel the model resolves a fractional scrollPx to
PxSub == 10
\* an absent parentId (undefined, or the empty string: both are falsy)
NoId == <<>>
\* the value of an unmeasured anchor position: above every scroll offset
Infinity == 1000000000

RECURSIVE itemsLoop_NoSeen(_, _, _, _, _)
\* (mutant) the loop marks every named waypoint's item as a header
itemsLoop_NoSeen(inner, k, seen, acc, mapping) ==
    IF k > Len(inner) THEN acc
    ELSE LET sp == inner[k]
         IN  IF sp.sectionName = "" THEN itemsLoop_NoSeen(inner, k + 1, seen, acc, mapping)
             ELSE itemsLoop_NoSeen(inner, k + 1, seen,
                      Append(acc, [id |-> <<"poi", sp.narrativeId>>,
                                   isLarge |-> TRUE,
                                   label |-> sp.sectionName,
                                   scrollPx |-> kmToPx(sp.distanceAlongPath, mapping),
                                   frac |-> 0,
                                   elementId |-> "",
                                   parentId |-> NoId]),
                      mapping)

RECURSIVE itemsLoop(_, _, _, _, _)
\* the loop of progressItems over innerPoints from index k, seenSections = seen
itemsLoop(inner, k, seen, acc, mapping) ==
    IF k > Len(inner) THEN acc
    ELSE LET sp == inner[k]
         IN  IF sp.sectionName = "" THEN itemsLoop(inner, k + 1, seen, acc, mapping)
             ELSE itemsLoop(inner, k + 1, seen \cup {sp.sectionName},
                      Append(acc, [id |-> <<"poi", sp.narrativeId>>,
                                   isLarge |-> sp.sectionName \notin seen,
                                   label |-> sp.sectionName,
                                   scrollPx |-> kmToPx(sp.distanceAlongPath, mapping),
                                   frac |-> 0,
                                   elementId |-> "",
                                   parentId |-> NoId]),
                      mapping)

\* progressItems of MapJourney: an item per named inner waypoint, then the two
\* gallery items
progressItems(snapped, mapping) ==
    itemsLoop(innerPoints(snapped), 1, {}, <<>>, mapping)
        \o <<[id |-> <<"pricing", 0>>, isLarge |-> TRUE, label |-> "Pricing",
              scrollPx |-> mapping.totalPx, frac |-> 0, elementId |-> "gallery-pricing",
              parentId |-> NoId],
             [id |-> <<"contact", 0>>, isLarge |-> TRUE, label |-> "Contact",
              scrollPx |-> mapping.totalPx, frac |-> 0, elementId |-> "gallery-contact",
              parentId |-> NoId]>>

\* the same list with every repeated section's item made a subsection item of
\* the section's first item (ProgressBarItem.parentId)
withParents(list) ==
    [i \in 1..Len(list) |->
        IF list[i].isLarge THEN list[i]
        ELSE [list[i] EXCEPT !.parentId =
                 list[CHOOSE j \in 1..Len(list) :
                          list[j].isLarge /\ list[j].label = list[i].label].id]]

\* the layout of the scroller: the height of its viewport, the height of the
\* gallery below the journey spacer, and where in the gallery the two anchors are
clientHeight == 800
GalleryHeight == 3000
PricingTop == 1500
ContactTop == 2500
scrollHeight(mapping) == mapping.totalPx + GalleryHeight
\* the largest scrollTop the scroller can report
MaxScrollTop(mapping) == scrollHeight(mapping) - clientHeight

\* target.getBoundingClientRect().top + el.scrollTop - el.getBoundingClientRect().top
measuredTop(elementId, mapping) ==
    mapping.totalPx + (IF elementId = "gallery-pricing" THEN PricingTop ELSE ContactTop)

\* the galleryPxs that `measure` sets
measure(list, mapping) ==
    LET ids == {list[i].elementId : i \in {j \in 1..Len(list) : list[j].elementId # ""}}
    IN  [e \in ids |-> measuredTop(e, mapping)]

\* (mutant) an unmeasured anchor falls back on the item's own scrollPx
effectivePx_RawFallback(item, pxs) ==
    IF item.elementId # "" /\ item.elementId \in DOMAIN pxs
    THEN pxs[item.elementId]
    ELSE item.scrollPx

effectivePx(item, pxs) ==
    IF item.elementId # ""
    THEN (IF item.elementId \in DOMAIN pxs THEN pxs[item.elementId] ELSE Infinity)
    ELSE item.scrollPx

\* (mutant) no epsilon: the offset the scroller reports, as it is
ST_Raw(top) == top

\* const ST = scrollTop + 1
ST(top) == top + 1

\* st >= effectivePx(item), for the whole number st of pixels the scroller
\* reports: the position of an item is effectivePx pixels and item.frac parts
\* in PxSub of a pixel (an anchor's measured position is whole)
passes(st, item, pxs) ==
    LET e == effectivePx(item, pxs)
    IN  st > e \/ (st = e /\ (item.elementId # "" \/ item.frac = 0))

sectionHeaders(list) ==
    SelectSeq(list, LAMBDA i : i.parentId = NoId /\ i.elementId = "")

RECURSIVE reduceSection(_, _, _, _)
\* sectionHeaders.reduce((best, item) => (ST >= item.scrollPx ? item.id : best), ...)
reduceSection(headers, top, k, best) ==
    IF k > Len(headers) THEN best
    ELSE reduceSection(headers, top, k + 1,
                       IF passes(ST(top), headers[k], [e \in {} |-> 0])
                       THEN headers[k].id ELSE best)

\* (mutant) the active section is the first header, wherever the scroller is
activeSectionId_First(list, top) ==
    LET headers == sectionHeaders(list)
    IN  IF Len(headers) > 0 THEN headers[1].id ELSE NoId

activeSectionId(list, top) ==
    LET headers == sectionHeaders(list)
    IN  reduceSection(headers, top, 1, IF Len(headers) > 0 THEN headers[1].id ELSE NoId)

visibleItems(list, top) ==
    LET section == activeSectionId(list, top)
    IN  SelectSeq(list, LAMBDA item : item.parentId = NoId \/ item.parentId = section)

RECURSIVE reduceActive(_, _, _, _, _)
\* visibleItems.reduce((best, item, i) => (ST >= effectivePx(item) ? i : best), 0)
reduceActive(visible, top, pxs, k, best) ==
    IF k > Len(visible) THEN best
    ELSE reduceActive(visible, top, pxs, k + 1,
                      IF passes(ST(top), visible[k], pxs) THEN k ELSE best)

\* (mutant) the position test without the epsilon
activeIndex_NoEpsilon(list, top, bottom, pxs) ==
    LET visible == visibleItems(list, top)
        passed == {k \in 1..Len(visible) : passes(top, visible[k], pxs)}
    IN  IF bottom THEN Len(visible)
        ELSE IF passed = {} THEN 1
        ELSE CHOOSE k \in passed : \A l \in passed : l <= k

\* the index (1-based) of the active item among the visible items
activeIndex(list, top, bottom, pxs) ==
    LET visible == visibleItems(list, top)
    IN  IF bottom THEN Len(visible)
        ELSE reduceActive(visible, top, pxs, 1, 1)

\* the same list with the waypoints' positions off the whole pixels: .6 px
\* past for the items at odd places of the list, .9 px past for the others
withFractions(list) ==
    [i \in 1..Len(list) |->
        IF list[i].elementId # "" THEN list[i]
        ELSE [list[i] EXCEPT !.frac = IF i % 2 = 1 THEN 6 ELSE 9]]

\* the item lists handed to ProgressBar over a journey
ItemLists(snapped, mapping) ==
    {progressItems(snapped, mapping), withParents(progressItems(snapped, mapping)),
     withFractions(progressItems(snapped, mapping))}

\* the offsets of the scroll events ProgressBar sees: around every position an
\* item has, around the end of the scroll range, and at the ends
ProgressOffsets(list, mapping) ==
    LET marks == {list[i].scrollPx : i \in 1..Len(list)}
                 \cup {measuredTop("gallery-pricing", mapping),
                       measuredTop("gallery-contact", mapping),
                       MaxScrollTop(mapping) - 5}
    IN  {px \in {m + d : m \in marks, d \in {0 - 2, 0 - 1, 0, 1}} \cup {0, MaxScrollTop(mapping)} :
             px >= 0 /\ px <= MaxScrollTop(mapping)}

\* ProgressBar after it mounted: nothing scrolled, nothing measured, the
\* measuring timeout armed, no item clicked
ProgressMounted ==
    /\ pbScrollTop = 0
    /\ atBottom = FALSE
    /\ galleryPxs = [e \in {} |-> 0]
    /\ measureTimer = TRUE
    /\ animations = <<>>
    /\ frameLog = <<>>
    /\ clicks = 0

\* (mutant) the bottom test without its slack of 5 px
handler_NoSlack(px) ==
    /\ pbScrollTop' = px
    /\ atBottom' = (px + clientHeight >= scrollHeight(scrollMapping))

\* ProgressBar's 'scroll' listener, the scroller at offset px
handler(px) ==
    /\ pbScrollTop' = px
    /\ atBottom' = (px + clientHeight >= scrollHeight(scrollMapping) - 5)

\* ------------------------------------------------------------ navigation
\* the contents list of the earlier ProgressBar, which animates the scroller
\* itself on a click
CLICK_SCROLL_MS == 5000
\* the time between two frames of the browser (the timestamps `now` handed to
\* tick are FrameMs or, after a dropped frame, 2 * FrameMs apart, and never
\* before the performance.now() of the call that requested the frame)
FrameMs == 2500
FrameGaps == {FrameMs, 2 * FrameMs}
\* the animation loops that may be running at once, and the clicks of a run
MaxAnimations == 2
MaxClicks == 3

\* the earlier activeIndex: scrollTop itself against every item of the list
RECURSIVE oldReduce(_, _, _, _, _)
oldReduce(list, top, pxs, k, best) ==
    IF k > Len(list) THEN best
    ELSE oldReduce(list, top, pxs, k + 1, IF passes(top, list[k], pxs) THEN k ELSE best)

oldActiveIndex(list, top, bottom, pxs) ==
    IF bottom THEN Len(list) ELSE oldReduce(list, top, pxs, 1, 1)

\* the targetPx of handleClick, in parts of a pixel
targetPx(item, pxs, top, mapping) ==
    IF item.elementId # ""
    THEN (IF item.elementId \in DOMAIN pxs
          THEN pxs[item.elementId] * PxSub
          ELSE measuredTop(item.elementId, mapping) * PxSub)
    ELSE item.scrollPx * PxSub + item.frac

\* (mutant) the duration is one unit per item crossed, none for the active item
sections_NoFloor(idx, active) == Abs(idx - active)

\* const sections = Math.max(Math.abs(idx - activeIndex), 1)
sections(idx, active) == Max(Abs(idx - active), 1)

\* the loop smoothScrollTo starts: start, dist (parts of a pixel) and duration
\* are the constants of its closure, elapsed is now - t0 at its last tick,
\* ticks the number of times tick has run and click the click that started it
smoothScrollTo(idx, top, target, duration, click) ==
    [idx |-> idx, start |-> top * PxSub, dist |-> target - top * PxSub,
     duration |-> duration, elapsed |-> 0, ticks |-> 0, click |-> click]

\* t = Math.min((now - t0) / duration, 1), in frames; ease = 1 - (1 - t) ** 3
\* is easeNum over easeDen
frames(ms) == ms \div FrameMs
tFrames(a) == Min(frames(a.elapsed), frames(a.duration))
easeDen(a) == frames(a.duration) * frames(a.duration) * frames(a.duration)
easeNum(a) ==
    LET r == frames(a.duration) - tFrames(a)
    IN  easeDen(a) - r * r * r

\* start + dist * ease, the value tick writes: in parts of easeDen of a part of
\* a pixel
written(a) == a.start * easeDen(a) + a.dist * easeNum(a)
\* the same scale for the loop's start and target
startOf(a) == a.start * easeDen(a)
targetOf(a) == (a.start + a.dist) * easeDen(a)

\* the scrollTop the scroller reports after the write: whole pixels, within its
\* scroll range
scrolled(a, mapping) ==
    Max(0, Min(MaxScrollTop(mapping), written(a) \div (easeDen(a) * PxSub)))

\* (mutant) tick asks for another frame whenever it has run
stops_Never(a) == FALSE
\* if (t < 1) requestAnimationFrame(tick)
stops(a) == ~(tFrames(a) < frames(a.duration))

\* ------------------------------------------------------------ loader
\* a feature of labelled_points.geojson as load sees it: its id, the section
\* narrativeLookup gives for the id ("" without an entry), whether its
\* coordinates are finite numbers, and the location nearestPointOnLine gives
\* for it (for non-finite coordinates: whatever number the projection returns,
\* if it returns)
MaxFeatures == 3
LoadLocations == {31, 102, 352}
Coordinates == {"finite", "invalid"}
FeatureLists ==
    UNION {{[i \in 1..n |-> [id |-> 100 + i,
                             sectionName |-> IF i = 2 THEN "B" ELSE "A",
                             coordinates |-> c[i],
                             location |-> l[i] * Tenth]] :
                c \in [1..n -> Coordinates], l \in [1..n -> LoadLocations]} :
           n \in 0..MaxFeatures}

\* the data files load fetches, and what becomes of each: the response is ok
\* and parses, its status is not ok, fetch rejects, or json() rejects
Files == {"style", "path", "points", "narrative"}
Outcomes == {"ok", "notOk", "rejected", "unparsable"}
AllOk == [f \in Files |-> "ok"]
\* every file fetched and parsed, or one of them failing
ResponseChoices ==
    {AllOk} \cup {[AllOk EXCEPT ![f] = o] : f \in Files, o \in Outcomes \ {"ok"}}

\* the waypoint the map callback returns for a feature
snap(feat) ==
    [narrativeId |-> feat.id,
     sectionName |-> feat.sectionName,
     distanceAlongPath |-> feat.location]

\* (mutant) the list is handed on in the order of the features
sort_None(list) == list

\* snappedPoints.sort((a, b) => a.distanceAlongPath - b.distanceAlongPath):
\* the sort is stable, points at one distance keep the order of the features
RECURSIVE sort(_)
sort(list) ==
    IF Len(list) <= 1 THEN list
    ELSE LET rest == sort(SubSeq(list, 1, Len(list) - 1))
             x == list[Len(list)]
             before == SelectSeq(rest, LAMBDA p : p.distanceAlongPath <= x.distanceAlongPath)
             after == SelectSeq(rest, LAMBDA p : p.distanceAlongPath > x.distanceAlongPath)
         IN  before \o <<x>> \o after

\* the features a waypoint list was loaded from: its own points, in its order
featuresOf(snapped) ==
    [i \in 1..Len(snapped) |->
        [id |-> snapped[i].narrativeId, sectionName |-> snapped[i].sectionName,
         coordinates |-> "finite", location |-> snapped[i].distanceAlongPath]]

\* const delta = 0.5
delta == KM \div 2

\* getBearingAtKm: the bearing from the point of the path at km1 to the one at
\* km2; the heading is kept as the pair it is taken between
getBearingAtKm(km, total) ==
    [by |-> "scroll", km |-> km,
     km1 |-> Max(0, km - delta), km2 |-> Min(total, km + delta)]

\* the 'load' handler of the map: the bearing at the journey's start
initBearing(snapped, total) ==
    LET startKm == IF Len(snapped) > 0 THEN snapped[1].distanceAlongPath ELSE 0
        bKm2 == Min(total, startKm + delta)
    IN  [by |-> "load", km |-> startKm, km1 |-> startKm, km2 |-> bKm2]

\* the least length a path has under its waypoints: it ends at the last one
PathEnd(snapped) ==
    IF Len(snapped) > 0 THEN snapped[Len(snapped)].distanceAlongPath ELSE 0
\* the lengths of the path drawn for a journey: it ends at the last waypoint,
\* 0.2 km after it, or 1 km after it
TotalDistances(snapped) == {PathEnd(snapped) + e : e \in {0, 2 * Tenth, KM}}

\* LoadingScreen has handed the waypoints to MapJourney
Loaded ==
    /\ loadState = "loaded"
    /\ features = featuresOf(snappedPoints)
    /\ responses = AllOk
    /\ progress = 100
    /\ totalDistance = PathEnd(snappedPoints)
    /\ cursor = initBearing(snappedPoints, totalDistance)

journeyVars == <<snappedPoints, scrollMapping>>
navVars == <<animations, frameLog, clicks>>
loadVars == <<features, loadState, responses, progress>>
markerVars == <<totalDistance, cursor>>
engineVars == <<scrollTop, rafRef, pendingFrames, activePoiIndex, sectionVisible,
                currentSectionName, displayedPoi, detailVisible, detailTimerRef,
                pendingTimers, superseded, effectBranch, replacedFrame>>
progressVars == <<items, pbScrollTop, atBottom, galleryPxs, measureTimer>>
vars == <<journeyVars, query, engineVars, progressVars, navVars, loadVars, markerVars>>

\* the state of MapJourney after it mounted over the journey: nothing scrolled,
\* no frame requested, the cross-fade effect has run once with no active POI
Mounted ==
    /\ scrollMapping = buildScrollMapping(snappedPoints)
    /\ scrollTop = 0
    /\ rafRef = null
    /\ pendingFrames = {}
    /\ activePoiIndex = null
    /\ sectionVisible = FALSE
    /\ currentSectionName = ""
    /\ displayedPoi = null
    /\ detailVisible = FALSE
    /\ detailTimerRef = null
    /\ pendingTimers = {}
    /\ superseded = null
    /\ effectBranch = "null"
    /\ replacedFrame = FALSE

\* ------------------------------------------------------------ SpecResolve
\* the pure resolution applied to offsets over a fixed journey
InitResolve ==
    /\ snappedPoints \in AllJourneys
    /\ Mounted
    /\ items = progressItems(snappedPoints, scrollMapping)
    /\ ProgressMounted
    /\ Loaded
    /\ query = resolve(FirstOffset, snappedPoints, scrollMapping)

\* the next query: one stride further down the page
Resolve ==
    LET px == query.scrollTop + PxStride
    IN  /\ px <= LastOffset(scrollMapping)
        /\ query' = resolve(px, snappedPoints, scrollMapping)
        /\ UNCHANGED <<journeyVars, navVars, loadVars, markerVars, engineVars, progressVars>>

SpecResolve == InitResolve /\ [][Resolve]_vars

\* ------------------------------------------------------------ engine
\* a handle the browser has not handed out among the pending ones (handles that
\* are neither pending nor held in ref are indistinguishable, so the least is taken)
FreshHandle(pending, ref) ==
    CHOOSE h \in 1..(Cardinality(pending) + 2) :
        /\ h # ref
        /\ \A p \in pending : p.handle # h

\* clearTimeout / cancelAnimationFrame: a handle that is not pending is ignored
Cancel(pending, handle) == {p \in pending : p.handle # handle}

\* (mutant) the listener requests a frame without cancelling the pending one
OnScroll_Enqueue ==
    \E px \in ScrollChoices(scrollMapping) :
        /\ px # scrollTop
        /\ scrollTop' = px
        /\ LET h == FreshHandle(pendingFrames, rafRef)
           IN  /\ pendingFrames' = pendingFrames \cup {[handle |-> h]}
               /\ rafRef' = h
               /\ replacedFrame' = FALSE
        /\ handler(px)
        /\ UNCHANGED <<journeyVars, navVars, loadVars, markerVars, query, activePoiIndex, sectionVisible,
                       currentSectionName, displayedPoi, detailVisible,
                       detailTimerRef, pendingTimers, superseded, effectBranch,
                       items, galleryPxs, measureTimer>>

\* (mutant) the listener cancels the pending frame and requests a new one only
\* when none was pending
OnScroll_CancelOnly ==
    \E px \in ScrollChoices(scrollMapping) :
        /\ px # scrollTop
        /\ scrollTop' = px
        /\ LET kept == IF rafRef # null THEN Cancel(pendingFrames, rafRef)
                       ELSE pendingFrames
               h == FreshHandle(kept, rafRef)
           IN  /\ pendingFrames' = IF kept # pendingFrames THEN kept
                                    ELSE kept \cup {[handle |-> h]}
               /\ rafRef' = h
               /\ replacedFrame' = (kept # pendingFrames)
        /\ handler(px)
        /\ UNCHANGED <<journeyVars, navVars, loadVars, markerVars, query, activePoiIndex, sectionVisible,
                       currentSectionName, displayedPoi, detailVisible,
                       detailTimerRef, pendingTimers, superseded, effectBranch,
                       items, galleryPxs, measureTimer>>

\* the 'scroll' listener wired by MapJourney, on the scroller reaching offset px:
\*   if (rafRef.current) cancelAnimationFrame(rafRef.current)
\*   rafRef.current = requestAnimationFrame(handleScroll)
OnScroll ==
    \E px \in ScrollChoices(scrollMapping) :
        /\ px # scrollTop
        /\ scrollTop' = px
        /\ LET kept == IF rafRef # null THEN Cancel(pendingFrames, rafRef)
                       ELSE pendingFrames
               h == FreshHandle(kept, rafRef)
           IN  /\ pendingFrames' = kept \cup {[handle |-> h]}
               /\ rafRef' = h
               /\ replacedFrame' = (kept # pendingFrames)
        /\ handler(px)
        /\ UNCHANGED <<journeyVars, navVars, loadVars, markerVars, query, activePoiIndex, sectionVisible,
                       currentSectionName, displayedPoi, detailVisible,
                       detailTimerRef, pendingTimers, superseded, effectBranch,
                       items, galleryPxs, measureTimer>>

\* (mutant) the effect arms its timer without clearing the one armed before
crossFadeEffect_NoClear(snapped, active, displayed, visible, timerRef, timers) ==
    IF active = null
    THEN [detailVisible |-> FALSE, detailTimerRef |-> timerRef, pendingTimers |-> timers]
    ELSE IF displayed = null
            \/ snapped[active].narrativeId # snapped[displayed].narrativeId
    THEN LET h == FreshHandle(timers, timerRef)
         IN  [detailVisible |-> FALSE, detailTimerRef |-> h,
              pendingTimers |-> timers \cup {[handle |-> h, activePoi |-> active]}]
    ELSE [detailVisible |-> TRUE, detailTimerRef |-> timerRef, pendingTimers |-> timers]

\* (mutant) the effect clears the pending timer only when no waypoint is active
crossFadeEffect_ClearOnNull(snapped, active, displayed, visible, timerRef, timers) ==
    IF active = null
    THEN [detailVisible |-> FALSE, detailTimerRef |-> timerRef,
          pendingTimers |-> IF timerRef # null THEN Cancel(timers, timerRef) ELSE timers]
    ELSE IF displayed = null
            \/ snapped[active].narrativeId # snapped[displayed].narrativeId
    THEN LET h == FreshHandle(timers, timerRef)
         IN  [detailVisible |-> FALSE, detailTimerRef |-> h,
              pendingTimers |-> timers \cup {[handle |-> h, activePoi |-> active]}]
    ELSE [detailVisible |-> TRUE, detailTimerRef |-> timerRef, pendingTimers |-> timers]

\* (mutant) the effect clears the pending timer only once a waypoint is displayed
crossFadeEffect_ClearIfDisplayed(snapped, active, displayed, visible, timerRef, timers) ==
    LET cleared == IF timerRef # null /\ displayed # null
                   THEN Cancel(timers, timerRef) ELSE timers
    IN  IF active = null
        THEN [detailVisible |-> FALSE, detailTimerRef |-> timerRef,
              pendingTimers |-> cleared]
        ELSE IF displayed = null
                \/ snapped[active].narrativeId # snapped[displayed].narrativeId
        THEN LET h == FreshHandle(cleared, timerRef)
             IN  [detailVisible |-> FALSE, detailTimerRef |-> h,
                  pendingTimers |-> cleared \cup {[handle |-> h, activePoi |-> active]}]
        ELSE [detailVisible |-> TRUE, detailTimerRef |-> timerRef,
              pendingTimers |-> cleared]

\* (mutant) the effect returns on a null activePoi before clearing the timer
crossFadeEffect_KeepOnNull(snapped, active, displayed, visible, timerRef, timers) ==
    LET cleared == IF timerRef # null THEN Cancel(timers, timerRef) ELSE timers
    IN  IF active = null
        THEN [detailVisible |-> FALSE, detailTimerRef |-> timerRef,
              pendingTimers |-> timers]
        ELSE IF displayed = null
                \/ snapped[active].narrativeId # snapped[displayed].narrativeId
        THEN LET h == FreshHandle(cleared, timerRef)
             IN  [detailVisible |-> FALSE, detailTimerRef |-> h,
                  pendingTimers |-> cleared \cup {[handle |-> h, activePoi |-> active]}]
        ELSE [detailVisible |-> TRUE, detailTimerRef |-> timerRef,
              pendingTimers |-> cleared]

\* (mutant) the effect clears the pending timer only on the branches that hide
\* the content, not when the active waypoint is the displayed one
crossFadeEffect_KeepOnSame(snapped, active, displayed, visible, timerRef, timers) ==
    LET cleared == IF timerRef # null THEN Cancel(timers, timerRef) ELSE timers
    IN  IF active = null
        THEN [detailVisible |-> FALSE, detailTimerRef |-> timerRef,
              pendingTimers |-> cleared]
        ELSE IF displayed = null
                \/ snapped[active].narrativeId # snapped[displayed].narrativeId
        THEN LET h == FreshHandle(cleared, timerRef)
             IN  [detailVisible |-> FALSE, detailTimerRef |-> h,
                  pendingTimers |-> cleared \cup {[handle |-> h, activePoi |-> active]}]
        ELSE [detailVisible |-> TRUE, detailTimerRef |-> timerRef,
              pendingTimers |-> timers]

\* (mutant) a waypoint other than the displayed one arms the timer without
\* hiding the content
crossFadeEffect_NoHide(snapped, active, displayed, visible, timerRef, timers) ==
    LET cleared == IF timerRef # null THEN Cancel(timers, timerRef) ELSE timers
    IN  IF active = null
        THEN [detailVisible |-> FALSE, detailTimerRef |-> timerRef,
              pendingTimers |-> cleared]
        ELSE IF displayed = null
                \/ snapped[active].narrativeId # snapped[displayed].narrativeId
        THEN LET h == FreshHandle(cleared, timerRef)
             IN  [detailVisible |-> visible, detailTimerRef |-> h,
                  pendingTimers |-> cleared \cup {[handle |-> h, activePoi |-> active]}]
        ELSE [detailVisible |-> TRUE, detailTimerRef |-> timerRef,
              pendingTimers |-> cleared]

\* the cross-fade effect, run after a render in which activePoi changed to
\* active (an index or null): what it leaves in detailVisible, detailTimerRef and
\* the pending timeouts
crossFadeEffect(snapped, active, displayed, visible, timerRef, timers) ==
    LET cleared == IF timerRef # null THEN Cancel(timers, timerRef) ELSE timers
    IN  IF active = null
        THEN [detailVisible |-> FALSE, detailTimerRef |-> timerRef,
              pendingTimers |-> cleared]
        ELSE IF displayed = null
                \/ snapped[active].narrativeId # snapped[displayed].narrativeId
        THEN LET h == FreshHandle(cleared, timerRef)
             IN  [detailVisible |-> FALSE, detailTimerRef |-> h,
                  pendingTimers |-> cleared \cup {[handle |-> h, activePoi |-> active]}]
        ELSE [detailVisible |-> TRUE, detailTimerRef |-> timerRef,
              pendingTimers |-> cleared]

\* the waypoint of the timer that was pending under the handle in timerRef when
\* the effect ran, null if none was pending
Replaced(timerRef, timers) ==
    IF \E t \in timers : t.handle = timerRef
    THEN (CHOOSE t \in timers : t.handle = timerRef).activePoi
    ELSE null

\* the branch of the effect taken for activePoi = active: no active waypoint, a
\* waypoint other than the displayed one, or the displayed one
Branch(snapped, active, displayed) ==
    IF active = null THEN "null"
    ELSE IF displayed = null
            \/ snapped[active].narrativeId # snapped[displayed].narrativeId
    THEN "swap"
    ELSE "same"

\* (mutant) the frame writes the section state only when the active waypoint changed
Frame_SectionWithEffect ==
    \E f \in pendingFrames :
        LET r == resolve(scrollTop, snappedPoints, scrollMapping)
            e == crossFadeEffect(snappedPoints, r.newActive, displayedPoi,
                                 detailVisible, detailTimerRef, pendingTimers)
        IN  /\ pendingFrames' = pendingFrames \ {f}
            /\ activePoiIndex' = r.newActive
            /\ IF r.newActive # activePoiIndex
               THEN /\ sectionVisible' = r.newSectionVisible
                    /\ currentSectionName' = r.newSectionName
                    /\ detailVisible' = e.detailVisible
                    /\ detailTimerRef' = e.detailTimerRef
                    /\ pendingTimers' = e.pendingTimers
                    /\ superseded' = Replaced(detailTimerRef, pendingTimers)
                    /\ effectBranch' = Branch(snappedPoints, r.newActive, displayedPoi)
               ELSE UNCHANGED <<sectionVisible, currentSectionName, detailVisible,
                                detailTimerRef, pendingTimers, superseded,
                                effectBranch>>
            /\ UNCHANGED <<journeyVars, navVars, loadVars, markerVars, query, scrollTop, rafRef, displayedPoi,
                           replacedFrame, progressVars>>

\* a requested animation frame runs handleScroll; the state it sets is rendered
\* and, if activePoi changed, the cross-fade effect runs
Frame ==
    \E f \in pendingFrames :
        LET r == resolve(scrollTop, snappedPoints, scrollMapping)
            e == crossFadeEffect(snappedPoints, r.newActive, displayedPoi,
                                 detailVisible, detailTimerRef, pendingTimers)
        IN  /\ pendingFrames' = pendingFrames \ {f}
            /\ activePoiIndex' = r.newActive
            /\ sectionVisible' = r.newSectionVisible
            /\ currentSectionName' = r.newSectionName
            /\ IF r.newActive # activePoiIndex
               THEN /\ detailVisible' = e.detailVisible
                    /\ detailTimerRef' = e.detailTimerRef
                    /\ pendingTimers' = e.pendingTimers
                    /\ superseded' = Replaced(detailTimerRef, pendingTimers)
                    /\ effectBranch' = Branch(snappedPoints, r.newActive, displayedPoi)
               ELSE UNCHANGED <<detailVisible, detailTimerRef, pendingTimers,
                                superseded, effectBranch>>
            /\ UNCHANGED <<journeyVars, navVars, loadVars, markerVars, query, scrollTop, rafRef, displayedPoi,
                           replacedFrame, progressVars>>

\* (mutant) the timer swaps the displayed waypoint and leaves the content hidden
SwapTimer_Hidden ==
    \E t \in pendingTimers :
        /\ pendingTimers' = pendingTimers \ {t}
        /\ displayedPoi' = t.activePoi
        /\ UNCHANGED <<journeyVars, navVars, loadVars, markerVars, query, scrollTop, rafRef, pendingFrames,
                       activePoiIndex, sectionVisible, currentSectionName, detailVisible,
                       detailTimerRef, superseded, effectBranch, replacedFrame,
                       progressVars>>

\* a swap timer fires, 280 ms after it was armed:
\*   setDisplayedPoi(activePoi); setDetailVisible(true)
\* the render that follows leaves activePoi as it was, so the effect does not run
SwapTimer ==
    \E t \in pendingTimers :
        /\ pendingTimers' = pendingTimers \ {t}
        /\ displayedPoi' = t.activePoi
        /\ detailVisible' = TRUE
        /\ UNCHANGED <<journeyVars, navVars, loadVars, markerVars, query, scrollTop, rafRef, pendingFrames,
                       activePoiIndex, sectionVisible, currentSectionName,
                       detailTimerRef, superseded, effectBranch, replacedFrame,
                       progressVars>>

\* the timeout of ProgressBar's measuring effect fires, 400 ms after the mount:
\*   setGalleryPxs(pxs)
MeasureTimer ==
    /\ measureTimer = TRUE
    /\ measureTimer' = FALSE
    /\ galleryPxs' = measure(items, scrollMapping)
    /\ UNCHANGED <<journeyVars, navVars, loadVars, markerVars, query, engineVars, items, pbScrollTop, atBottom>>

\* the journeys the engine is run over: those of up to MaxEnginePoints
\* waypoints, the tied ones and the long ones
MaxEnginePoints == 3
EngineJourneys ==
    {j \in AllJourneys : Len(j) <= MaxEnginePoints \/ j \in TiedJourneys \cup LongJourneys}

Init ==
    /\ snappedPoints \in EngineJourneys
    /\ Mounted
    /\ query = resolve(0, snappedPoints, scrollMapping)
    /\ items = progressItems(snappedPoints, scrollMapping)
    /\ ProgressMounted
    /\ Loaded

Next == OnScroll \/ Frame \/ SwapTimer \/ MeasureTimer

Spec == Init /\ [][Next]_vars

\* ------------------------------------------------------------ SpecProgress
\* ProgressBar alone over a journey's item list: scroll events at the offsets
\* around its items' positions, and the measurement
InitProgress ==
    /\ snappedPoints \in AllJourneys
    /\ Mounted
    /\ query = resolve(0, snappedPoints, scrollMapping)
    /\ items \in ItemLists(snappedPoints, scrollMapping)
    /\ ProgressMounted
    /\ Loaded

\* a scroll event reaches ProgressBar's listener
ProgressScroll ==
    \E px \in ProgressOffsets(items, scrollMapping) :
        /\ px # scrollTop
        /\ scrollTop' = px
        /\ handler(px)
        /\ UNCHANGED <<journeyVars, navVars, loadVars, markerVars, query, rafRef, pendingFrames, activePoiIndex,
                       sectionVisible, currentSectionName, displayedPoi,
                       detailVisible, detailTimerRef, pendingTimers, superseded,
                       effectBranch, replacedFrame, items, galleryPxs, measureTimer>>

SpecProgress == InitProgress /\ [][ProgressScroll \/ MeasureTimer]_vars

\* ------------------------------------------------------------ SpecNavigate
\* the earlier ProgressBar over a journey's item list: clicks on its items, the
\* frames of the animation loops they start, and the measurement
NavJourneys == {ScenarioJourney} \cup TiedJourneys

InitNavigate ==
    /\ snappedPoints \in NavJourneys
    /\ Mounted
    /\ query = resolve(0, snappedPoints, scrollMapping)
    /\ items \in {progressItems(snappedPoints, scrollMapping),
                  withFractions(progressItems(snappedPoints, scrollMapping))}
    /\ ProgressMounted
    /\ Loaded

\* a click on the item at place idx of the list
handleClick ==
    \E idx \in 1..Len(items) :
        LET active == oldActiveIndex(items, pbScrollTop, atBottom, galleryPxs)
            target == targetPx(items[idx], galleryPxs, scrollTop, scrollMapping)
        IN  /\ Len(animations) < MaxAnimations
            /\ clicks < MaxClicks
            /\ clicks' = clicks + 1
            /\ animations' = Append(animations,
                                    smoothScrollTo(idx, scrollTop, target,
                                                   sections(idx, active) * CLICK_SCROLL_MS,
                                                   clicks + 1))
            /\ UNCHANGED <<journeyVars, loadVars, markerVars, query, engineVars, progressVars, frameLog>>

\* a frame of the browser: the tick of every running loop, in the order the
\* frames were requested, then the scroll event of the offset the last one wrote
NavFrame ==
    /\ animations # <<>>
    /\ \E gap \in FrameGaps :
        LET ticked == [i \in 1..Len(animations) |->
                          [animations[i] EXCEPT !.elapsed = @ + gap, !.ticks = @ + 1]]
            px == scrolled(ticked[Len(ticked)], scrollMapping)
        IN  /\ frameLog' = [i \in 1..Len(ticked) |->
                               [before |-> animations[i], after |-> ticked[i]]]
            /\ animations' = SelectSeq(ticked, LAMBDA a : ~stops(a))
            /\ scrollTop' = px
            /\ handler(px)
    /\ UNCHANGED <<journeyVars, loadVars, markerVars, query, clicks, rafRef, pendingFrames, activePoiIndex,
                   sectionVisible, currentSectionName, displayedPoi,
                   detailVisible, detailTimerRef, pendingTimers, superseded,
                   effectBranch, replacedFrame, items, galleryPxs, measureTimer>>

SpecNavigate == InitNavigate /\ [][handleClick \/ NavFrame \/ MeasureTimer]_vars

\* ------------------------------------------------------------ SpecLoad
\* LoadingScreen over a list of features, then MapJourney over the waypoints it
\* hands on
InitLoad ==
    /\ features \in FeatureLists
    /\ responses \in ResponseChoices
    /\ progress = 0
    /\ totalDistance = 0
    /\ cursor = initBearing(<<>>, 0)
    /\ loadState = "loading"
    /\ snappedPoints = <<>>
    /\ Mounted
    /\ query = resolve(0, snappedPoints, scrollMapping)
    /\ items = progressItems(snappedPoints, scrollMapping)
    /\ ProgressMounted

\* load fails and the catch clause sets the error: a fetch rejects or a
\* response is not ok (progress 10), json() rejects (progress 40), or turf.point
\* or nearestPointOnLine throws on a feature whose coordinates are not finite
\* numbers (progress 80)
loadThrows ==
    /\ loadState = "loading"
    /\ \/ /\ \E f \in Files : responses[f] \in {"notOk", "rejected"}
          /\ progress' = 10
       \/ /\ \A f \in Files : responses[f] \notin {"notOk", "rejected"}
          /\ \E f \in Files : responses[f] = "unparsable"
          /\ progress' = 40
       \/ /\ responses = AllOk
          /\ \E i \in 1..Len(features) : features[i].coordinates = "invalid"
          /\ progress' = 80
    /\ loadState' = "error"
    /\ UNCHANGED <<journeyVars, navVars, query, engineVars, progressVars, features,
                   responses, markerVars>>

\* (mutant) load does not look at the responses' status
load_Unchecked ==
    /\ loadState = "loading"
    /\ \A f \in Files : responses[f] # "rejected"
    /\ loadState' = "loaded"
    /\ progress' = 100
    /\ snappedPoints' = sort([i \in 1..Len(features) |-> snap(features[i])])
    /\ scrollMapping' = buildScrollMapping(snappedPoints')
    /\ query' = resolve(0, snappedPoints', scrollMapping')
    /\ items' = progressItems(snappedPoints', scrollMapping')
    /\ totalDistance' = PathEnd(snappedPoints')
    /\ cursor' = initBearing(snappedPoints', totalDistance')
    /\ UNCHANGED <<navVars, engineVars, pbScrollTop, atBottom, galleryPxs, measureTimer,
                   features, responses>>

\* load completes: every file was fetched with an ok status and parsed, every
\* feature is mapped to a waypoint, the list is sorted, the progress set to 100
\* and the data handed to onLoaded; MapJourney mounts over it
load ==
    /\ loadState = "loading"
    /\ responses = AllOk
    /\ loadState' = "loaded"
    /\ progress' = 100
    /\ snappedPoints' = sort([i \in 1..Len(features) |-> snap(features[i])])
    /\ scrollMapping' = buildScrollMapping(snappedPoints')
    /\ query' = resolve(0, snappedPoints', scrollMapping')
    /\ items' = progressItems(snappedPoints', scrollMapping')
    /\ totalDistance' = PathEnd(snappedPoints')
    /\ cursor' = initBearing(snappedPoints', totalDistance')
    /\ UNCHANGED <<navVars, engineVars, pbScrollTop, atBottom, galleryPxs, measureTimer,
                   features, responses>>

\* MapJourney is rendered once the data is loaded
Journey == loadState = "loaded" /\ Next

SpecLoad == InitLoad /\ [][loadThrows \/ load \/ Journey]_vars

\* ------------------------------------------------------------ SpecMarker
\* the heading of the position marker: set by the map's 'load' handler, then by
\* handleScroll's call of getBearingAtKm at the distance of each offset
InitMarker ==
    /\ snappedPoints \in AllJourneys
    /\ Mounted
    /\ items = progressItems(snappedPoints, scrollMapping)
    /\ ProgressMounted
    /\ features = featuresOf(snappedPoints)
    /\ loadState = "loaded"
    /\ responses = AllOk
    /\ progress = 100
    /\ totalDistance \in TotalDistances(snappedPoints)
    /\ cursor = initBearing(snappedPoints, totalDistance)
    /\ query = resolve(0, snappedPoints, scrollMapping)

\* handleScroll at an offset: const bearing = getBearingAtKm(km)
Bearing ==
    \E px \in ScrollChoices(scrollMapping) :
        /\ query' = resolve(px, snappedPoints, scrollMapping)
        /\ cursor' = getBearingAtKm(query'.km, totalDistance)
        /\ UNCHANGED <<journeyVars, navVars, loadVars, totalDistance, engineVars,
                       progressVars>>

SpecMarker == InitMarker /\ [][Bearing]_vars

\* ------------------------------------------------------------ SpecUnmount
\* MapJourney is unmounted: the cleanups of its effects and of ProgressBar's run.
\* The scroll effect's cleanup removes the listener and cancels the frame in
\* rafRef, ProgressBar's clears its measuring timeout; the cross-fade effect
\* returns no cleanup
Unmount ==
    /\ loadState = "loaded"
    /\ loadState' = "unmounted"
    /\ pendingFrames' = IF rafRef # null THEN Cancel(pendingFrames, rafRef) ELSE pendingFrames
    /\ measureTimer' = FALSE
    /\ UNCHANGED <<journeyVars, navVars, features, responses, progress, markerVars, query,
                   scrollTop,
                   rafRef, activePoiIndex,
                   sectionVisible, currentSectionName, displayedPoi, detailVisible,
                   detailTimerRef, pendingTimers, superseded, effectBranch,
                   replacedFrame, items, pbScrollTop, atBottom, galleryPxs>>

\* a swap timer fires after the unmount: its callback calls setDisplayedPoi and
\* setDetailVisible of the component that is gone, which React drops
LateTimer ==
    /\ loadState = "unmounted"
    /\ \E t \in pendingTimers : pendingTimers' = pendingTimers \ {t}
    /\ UNCHANGED <<journeyVars, navVars, loadVars, markerVars, query, scrollTop, rafRef, pendingFrames,
                   activePoiIndex, sectionVisible, currentSectionName, displayedPoi,
                   detailVisible, detailTimerRef, superseded, effectBranch,
                   replacedFrame, progressVars>>

SpecUnmount == Init /\ [][Journey \/ Unmount \/ LateTimer]_vars

\* ------------------------------------------------------------ properties
NumPoints == Len(snappedPoints)
Dist(i) == snappedPoints[i].distanceAlongPath
Window == POI_WINDOW_KM * KM
LastPx == scrollMapping.pxCumulative[Len(scrollMapping.pxCumulative)]
\* the state right after the mapping was built, before any further query
Built == query.scrollTop = FirstOffset
\* the offset handed to scrollPxToKm by the last query
ClampedPx == Min(query.scrollTop, scrollMapping.totalPx)
\* the pixel cost of one full step inside a dwell zone: 0.2 x BASE_PX_PER_KM x SLOW_FACTOR
MaxStepPx == (STEP_KM * BASE_PX_PER_KM * SLOW_FACTOR) \div KM

\* every division the last query made was exact: the fixed-point result is the
\* real number the source's expression denotes
ExactArithmetic ==
    /\ \A i \in 1..NumPoints : Dist(i) % Tenth = 0
    /\ (NumPoints > 0 /\ ClampedPx > 0 /\ ClampedPx < LastPx) =>
          LET ps == scrollMapping.pxCumulative
              ks == scrollMapping.kmSamples
              b == bisect(ps, ClampedPx, 1, Len(ps))
          IN  ((ClampedPx - ps[b[1]]) * (ks[b[2]] - ks[b[1]])) % (ps[b[2]] - ps[b[1]]) = 0

C2_StepCosts ==
    (Built /\ NumPoints > 0) =>
        LET ks == scrollMapping.kmSamples
            ps == scrollMapping.pxCumulative
            n == Len(ks) - 1
            span == Dist(NumPoints) - Dist(1)
        IN  /\ n >= 1 /\ n * STEP_KM >= span /\ (n > 1 => (n - 1) * STEP_KM < span)
            /\ \A i \in 0..n : ks[i + 1] = Min(Dist(1) + i * STEP_KM, Dist(NumPoints))
            /\ ps[1] = 0
            /\ \A i \in 1..n :
                   LET inside == \E j \in 1..NumPoints :
                                     Abs(ks[i] + ks[i + 1] - 2 * Dist(j)) <= 2 * Window
                   IN  (ps[i + 1] - ps[i]) * KM =
                           (ks[i + 1] - ks[i]) * BASE_PX_PER_KM
                               * (IF inside THEN SLOW_FACTOR ELSE 1)
            /\ (snappedPoints = ScenarioJourney) =>
                   \A i \in 1..(n + 1) : ps[i] * KM = ks[i] * BASE_PX_PER_KM * SLOW_FACTOR

\* a mapping with a full step at the base rate, a full step at the slow rate and
\* a shorter last step
C2_Witness ==
    /\ Built
    /\ NumPoints > 0
    /\ LET ks == scrollMapping.kmSamples
           ps == scrollMapping.pxCumulative
           n == Len(ks) - 1
       IN  /\ \E i \in 1..n : ks[i + 1] - ks[i] = STEP_KM /\ ps[i + 1] - ps[i] = MaxStepPx
           /\ \E i \in 1..n : ks[i + 1] - ks[i] = STEP_KM
                              /\ (ps[i + 1] - ps[i]) * SLOW_FACTOR = MaxStepPx
           /\ ks[n + 1] - ks[n] < STEP_KM

\* C3: for an offset strictly between 0 and the last pxCumulative entry the
\* binary search ends on adjacent indices lo, hi = lo + 1 that bracket the offset,
\* pxCumulative[lo] <= px < pxCumulative[hi], so the denominator is positive, and
\* the resolved distance is the linear interpolation of kmSamples over the bracket.
C3_Bracket ==
    (NumPoints > 0 /\ ClampedPx > 0 /\ ClampedPx < LastPx) =>
        LET ks == scrollMapping.kmSamples
            ps == scrollMapping.pxCumulative
            b == bisect(ps, ClampedPx, 1, Len(ps))
            lo == b[1]
            hi == b[2]
        IN  /\ lo \in 1..(Len(ps) - 1) /\ hi = lo + 1
            /\ ps[lo] <= ClampedPx /\ ClampedPx < ps[hi]
            /\ ps[hi] - ps[lo] > 0
            /\ (query.km - ks[lo]) * (ps[hi] - ps[lo])
                   = (ClampedPx - ps[lo]) * (ks[hi] - ks[lo])

\* a query that falls exactly on a sample, past the first, after many others
C3_Witness ==
    /\ NumPoints > 0 /\ ClampedPx > 0 /\ ClampedPx < LastPx
    /\ LET ps == scrollMapping.pxCumulative
           b == bisect(ps, ClampedPx, 1, Len(ps))
       IN  b[1] > 3 /\ ps[b[1]] = ClampedPx

\* C4: out-of-range offsets are clamped: for every offset the resolved distance
\* lies between the first and the last waypoint's distance; an offset <= 0
\* resolves to the first waypoint's distance and an offset >= totalPx to the last.
C4_Clamped ==
    /\ (NumPoints = 0) => query.km = 0
    /\ (NumPoints > 0) =>
          /\ Dist(1) <= query.km /\ query.km <= Dist(NumPoints)
          /\ (query.scrollTop <= 0) => query.km = Dist(1)
          /\ (query.scrollTop >= scrollMapping.totalPx) => query.km = Dist(NumPoints)

\* an offset past the end of the scroll range, over a journey with a real span
C4_Witness ==
    /\ NumPoints >= 2
    /\ Dist(NumPoints) > Dist(1)
    /\ query.scrollTop > scrollMapping.totalPx
    /\ query.km = Dist(NumPoints)

\* kmToPx(scrollPxToKm(px)) for the offset of the last query
RoundTrip == kmToPx(query.km, scrollMapping)

\* C5 as claimed: for every offset in [0, totalPx], the tail included, the round
\* trip recovers the offset within one step's pixel cost.
C5_AsClaimed ==
    (query.scrollTop >= 0 /\ query.scrollTop <= scrollMapping.totalPx) =>
        Abs(RoundTrip - query.scrollTop) <= MaxStepPx

\* C5 (amended): for an offset in [0, last pxCumulative entry] the round trip
\* recovers the offset within one step's pixel cost; for an offset in the tail
\* padding it returns the last pxCumulative entry, short of the offset by up to
\* the tail length 0.5 x BASE_PX_PER_KM.
C5_RoundTrip ==
    (NumPoints > 0 /\ query.scrollTop >= 0 /\ query.scrollTop <= scrollMapping.totalPx) =>
        /\ (query.scrollTop <= LastPx) => Abs(RoundTrip - query.scrollTop) <= MaxStepPx
        /\ (query.scrollTop > LastPx) =>
              /\ RoundTrip = LastPx
              /\ query.scrollTop - RoundTrip <= BASE_PX_PER_KM \div 2

\* an offset strictly inside a slow step, and the far end of the tail
C5_Witness ==
    /\ NumPoints >= 2
    /\ query.scrollTop > 0 /\ query.scrollTop < LastPx
    /\ LET ps == scrollMapping.pxCumulative
           b == bisect(ps, query.scrollTop, 1, Len(ps))
       IN  ps[b[1]] < query.scrollTop /\ ps[b[2]] - ps[b[1]] = MaxStepPx
    /\ RoundTrip = query.scrollTop

\* the indices eligible for activation: all but the first and the last of three
\* or more waypoints, every index otherwise
Eligible ==
    IF NumPoints > 2 THEN 2..(NumPoints - 1) ELSE 1..NumPoints
InWindow(i) == Abs(query.km - Dist(i)) <= Window
Least(S) == CHOOSE i \in S : \A j \in S : i <= j

C7_AsClaimed ==
    \A i \in Eligible : (query.newActive = i) <=> InWindow(i)

\* C7 (amended): an eligible waypoint is inactive strictly outside its closed
\* window [d - POI_WINDOW_KM, d + POI_WINDOW_KM], and inside it it is the active
\* one exactly when the distance is in the window of no eligible waypoint before
\* it; a waypoint whose window overlaps no earlier one is active on all of it,
\* both ends included.
C7_WindowSemantics ==
    \A i \in Eligible :
        /\ (query.newActive = i) => InWindow(i)
        /\ (query.newActive = i) <=>
               (InWindow(i) /\ \A j \in Eligible : j < i => ~InWindow(j))
        /\ (Abs(query.km - Dist(i)) = Window
                /\ \A j \in Eligible : j < i => Abs(Dist(i) - Dist(j)) > 2 * Window)
               => query.newActive = i

\* the resolved distance is exactly the far end of a window no earlier one overlaps
C7_Witness ==
    \E i \in Eligible :
        /\ query.km = Dist(i) + Window
        /\ query.newActive = i
        /\ \E j \in Eligible : j < i

\* the eligible waypoints that carry a section name, in order
IsNamed(sp) == sp.sectionName # ""
NamedPoints == SelectSeq(innerPoints(snappedPoints), IsNamed)
\* the runs of one section name among seq: where each starts and where it ends
RunStarts(seq) ==
    {a \in 1..Len(seq) : a = 1 \/ seq[a - 1].sectionName # seq[a].sectionName}
RunEnd(seq, a) ==
    CHOOSE b \in a..Len(seq) :
        /\ \A c \in a..b : seq[c].sectionName = seq[a].sectionName
        /\ b = Len(seq) \/ seq[b + 1].sectionName # seq[a].sectionName
\* the k-th run start, in order
NthStart(seq, k) ==
    CHOOSE a \in RunStarts(seq) : Cardinality({b \in RunStarts(seq) : b <= a}) = k
\* the range of the run of seq that starts at a
RunRange(seq, a) ==
    [sectionName |-> seq[a].sectionName,
     minKm |-> seq[a].distanceAlongPath - Window,
     maxKm |-> seq[RunEnd(seq, a)].distanceAlongPath + Window]
Holds(range) == query.km >= range.minKm /\ query.km <= range.maxKm

\* C8 as claimed: the ranges are the runs of one section name among the eligible
\* waypoints, any waypoint of another name (the empty name too) ending a run;
\* the section is visible iff the distance lies in a range, under the name of the
\* first such range.
C8_AsClaimed ==
    LET inner == innerPoints(snappedPoints)
        starts == {a \in RunStarts(inner) : inner[a].sectionName # ""}
        hit == {a \in starts : Holds(RunRange(inner, a))}
    IN  /\ query.newSectionVisible <=> hit # {}
        /\ query.newSectionName =
               IF hit = {} THEN "" ELSE inner[Least(hit)].sectionName

\* C8 (amended): eligible waypoints without a section name are skipped: they
\* open no range and end no run.  The runs of one section name among the named
\* eligible waypoints each give one range [first - POI_WINDOW_KM, last +
\* POI_WINDOW_KM], in order; the section is visible iff the distance lies in a
\* range, under the name of the first such range, '' when there is none.
C8_SectionRule ==
    LET ranges == sectionRanges(snappedPoints)
        hit == {k \in 1..Len(ranges) : Holds(ranges[k])}
    IN  /\ Len(ranges) = Cardinality(RunStarts(NamedPoints))
        /\ \A k \in 1..Len(ranges) :
               ranges[k] = RunRange(NamedPoints, NthStart(NamedPoints, k))
        /\ query.newSectionVisible <=> hit # {}
        /\ query.newSectionName =
               IF hit = {} THEN "" ELSE ranges[Least(hit)].sectionName

\* a range merged over an unnamed waypoint, the distance at that waypoint and
\* outside the windows of the named ones
C8_Witness ==
    /\ NumPoints = 5
    /\ snappedPoints[2].sectionName = "A"
    /\ snappedPoints[3].sectionName = ""
    /\ snappedPoints[4].sectionName = "A"
    /\ query.km = Dist(3)
    /\ ~InWindow(2) /\ ~InWindow(4)
    /\ query.newSectionVisible /\ query.newSectionName = "A"

Disjoint(r1, r2) == r1.maxKm < r2.minKm \/ r2.maxKm < r1.minKm

\* C9 as claimed: no distance lies in the ranges of two different section names.
C9_AsClaimed ==
    Built =>
        LET ranges == sectionRanges(snappedPoints)
        IN  \A k, l \in 1..Len(ranges) :
                ranges[k].sectionName # ranges[l].sectionName
                    => Disjoint(ranges[k], ranges[l])

\* C9 (amended): by the adjacent merge neighbouring ranges carry different
\* section names and the ranges are in ascending order; two ranges of different
\* section names overlap exactly when a waypoint of the one and a waypoint of the
\* other lie at most 2 x POI_WINDOW_KM apart, so they are disjoint only for
\* sections that far apart.
C9_RangesOverlap ==
    Built =>
        LET ranges == sectionRanges(snappedPoints)
            named == NamedPoints
            \* the named eligible waypoints range k was built from
            members(k) == {c \in 1..Len(named) :
                              /\ named[c].sectionName = ranges[k].sectionName
                              /\ named[c].distanceAlongPath - Window >= ranges[k].minKm
                              /\ named[c].distanceAlongPath + Window <= ranges[k].maxKm}
        IN  /\ \A k \in 1..(Len(ranges) - 1) :
                   /\ ranges[k].sectionName # ranges[k + 1].sectionName
                   /\ ranges[k].minKm <= ranges[k + 1].minKm
                   /\ ranges[k].maxKm <= ranges[k + 1].maxKm
            /\ \A k, l \in 1..Len(ranges) :
                   ranges[k].sectionName # ranges[l].sectionName =>
                       (~Disjoint(ranges[k], ranges[l]) <=>
                            \E c \in members(k), e \in members(l) :
                                Abs(named[c].distanceAlongPath
                                        - named[e].distanceAlongPath) <= 2 * Window)

\* two ranges of different sections that are apart, and two that overlap
C9_Witness ==
    /\ Built
    /\ LET ranges == sectionRanges(snappedPoints)
       IN  /\ Len(ranges) = 3
           /\ ranges[1].sectionName # ranges[2].sectionName
           /\ ~Disjoint(ranges[1], ranges[2])
           /\ Disjoint(ranges[2], ranges[3])

NarrativeId(i) == snappedPoints[i].narrativeId

C12_OneTimer ==
    /\ [](/\ Cardinality(pendingTimers) <= 1
          /\ \A t \in pendingTimers : t.handle = detailTimerRef)
    /\ [][detailTimerRef' # detailTimerRef
          => /\ Cardinality(pendingTimers') = 1
             /\ pendingTimers' \cap pendingTimers = {}]_vars

\* a timer has been armed over a pending one: one timer is pending, for the
\* active waypoint, and the one it replaced is gone
C12_Witness ==
    /\ effectBranch = "swap"
    /\ superseded # null
    /\ Cardinality(pendingTimers) = 1
    /\ \A t \in pendingTimers : t.handle = detailTimerRef /\ t.activePoi # superseded

C14_SameAsDisplayed ==
    /\ [][(/\ pendingFrames' # pendingFrames
           /\ rafRef' = rafRef
           /\ activePoiIndex' # null
           /\ displayedPoi # null
           /\ NarrativeId(activePoiIndex') = NarrativeId(displayedPoi))
          => /\ detailVisible' = TRUE
             /\ pendingTimers' = {}
             /\ displayedPoi' = displayedPoi]_vars
    /\ []((/\ activePoiIndex # null
           /\ displayedPoi # null
           /\ NarrativeId(activePoiIndex) = NarrativeId(displayedPoi))
          => detailVisible = TRUE /\ pendingTimers = {})

\* the scroll came back onto the displayed waypoint while a swap to another
\* one was pending: the effect cleared that timer and showed the content
C14_Witness ==
    /\ effectBranch = "same"
    /\ superseded # null
    /\ activePoiIndex # null
    /\ activePoiIndex = displayedPoi
    /\ superseded # displayedPoi
    /\ detailVisible = TRUE
    /\ pendingTimers = {}

\* a step in which a requested frame ran (OnScroll stores a new handle in rafRef)
FrameStep == pendingFrames' # pendingFrames /\ rafRef' = rafRef
\* a step in which a swap timer fired
SwapStep == pendingTimers' # pendingTimers /\ pendingFrames' = pendingFrames

\* C15: a resolution step sets sectionVisible, currentSectionName and the active
\* waypoint to what the resolution of the scroll offset alone gives, whatever
\* the state of the cross-fade (a timer pending or not, armed or cleared in the
\* step), and never writes the displayed waypoint; a timer that fires leaves
\* sectionVisible, currentSectionName and the active waypoint unchanged.
C15_SectionIndependent ==
    /\ [][FrameStep
          => LET r == resolve(scrollTop, snappedPoints, scrollMapping)
             IN  /\ sectionVisible' = r.newSectionVisible
                 /\ currentSectionName' = r.newSectionName
                 /\ activePoiIndex' = r.newActive
                 /\ displayedPoi' = displayedPoi]_vars
    /\ [][SwapStep
          => /\ sectionVisible' = sectionVisible
             /\ currentSectionName' = currentSectionName
             /\ activePoiIndex' = activePoiIndex]_vars

\* the section header is already up for the new position while the panel still
\* shows another waypoint and its swap is pending
C15_Witness ==
    /\ sectionVisible = TRUE
    /\ currentSectionName # ""
    /\ pendingTimers # {}
    /\ detailVisible = FALSE
    /\ displayedPoi # null
    /\ displayedPoi # activePoiIndex
    /\ snappedPoints[displayedPoi].sectionName # currentSectionName

\* a step in which a scroll event was delivered
ScrollStep == scrollTop' # scrollTop
\* what MapJourney's resolution writes, and what ProgressBar's listener writes
Resolved == <<activePoiIndex, sectionVisible, currentSectionName>>
Progress == <<pbScrollTop, atBottom>>

Visible == visibleItems(items, pbScrollTop)
ActiveIndex == activeIndex(items, pbScrollTop, atBottom, galleryPxs)
\* the indices of the rendered items whose effective position is reached
Passed ==
    {k \in 1..Len(Visible) :
         (effectivePx(Visible[k], galleryPxs) < pbScrollTop + 1)
         \/ (/\ effectivePx(Visible[k], galleryPxs) = pbScrollTop + 1
             /\ (Visible[k].elementId # "" \/ Visible[k].frac = 0))}
Unmeasured(item) == item.elementId # "" /\ item.elementId \notin DOMAIN galleryPxs

\* C17: when the scroller is not at its maximum extent, the active index is
\* that of the last item, in the order of the rendered list, whose effective
\* position is at most scrollTop + 1, and the first index when there is none.
C17_ActiveItem ==
    ~atBottom =>
        /\ ActiveIndex \in 1..Len(Visible)
        /\ IF Passed = {} THEN ActiveIndex = 1
           ELSE /\ ActiveIndex \in Passed
                /\ \A k \in Passed : k <= ActiveIndex

\* the scroller is one pixel short of the position of an item, not the first:
\* by the epsilon that item is the active one
C17_Witness ==
    /\ ~atBottom
    /\ ActiveIndex > 1
    /\ effectivePx(Visible[ActiveIndex], galleryPxs) = pbScrollTop + 1

\* C18 as claimed: an anchor-bound item that has not been measured is never
\* the active item.
C18_AsClaimed == ~Unmeasured(Visible[ActiveIndex])

\* C18 (amended): an anchor-bound item that has not been measured has an
\* effective position above every scroll offset, so it never passes the
\* position test, also when the offset is at or past its raw scrollPx; it is
\* the active item only where the test does not decide: the scroller is at its
\* maximum extent and the item is the last one, or the item is the first one
\* and no item passes the test.
C18_Unreachable ==
    \A k \in 1..Len(Visible) :
        Unmeasured(Visible[k]) =>
            /\ effectivePx(Visible[k], galleryPxs) > MaxScrollTop(scrollMapping) + 1
            /\ k \notin Passed
            /\ ActiveIndex = k =>
                   \/ atBottom /\ k = Len(Visible)
                   \/ ~atBottom /\ k = 1 /\ Passed = {}

\* nothing is measured, the scroller is past the raw scrollPx of the anchor
\* items and short of its maximum extent: a waypoint's item is the active one
C18_Witness ==
    /\ measureTimer = TRUE
    /\ ~atBottom
    /\ \E k \in 1..Len(Visible) :
           Unmeasured(Visible[k]) /\ pbScrollTop >= Visible[k].scrollPx
    /\ Visible[ActiveIndex].elementId = ""

\* C19: atBottom is what the last scroll event reported: scrollTop +
\* clientHeight >= scrollHeight - 5 at the offset it delivered (false before any
\* event), so it is set when the scroller comes within 5 px of its maximum
\* extent and released when it scrolls back up; whenever it is set the active
\* item is the last item of the list, whatever the items' effective positions.
C19_BottomForced ==
    /\ atBottom = (pbScrollTop + clientHeight >= scrollHeight(scrollMapping) - 5)
    /\ atBottom =>
           /\ ActiveIndex = Len(Visible)
           /\ Visible[ActiveIndex] = items[Len(items)]

\* the scroller is 5 px short of its maximum extent, everything is measured and
\* the position of the last item is not reached: it is the active item
C19_Witness ==
    /\ measureTimer = FALSE
    /\ atBottom
    /\ pbScrollTop = MaxScrollTop(scrollMapping) - 5
    /\ Len(Visible) \notin Passed
    /\ ActiveIndex = Len(Visible)

\* the list MapJourney builds for the journey, its header items among the
\* waypoints' items, and the eligible waypoints
BuiltItems == progressItems(snappedPoints, scrollMapping)
Headers == {i \in 1..Len(BuiltItems) : BuiltItems[i].isLarge /\ BuiltItems[i].elementId = ""}
Inner == innerPoints(snappedPoints)
\* the first eligible waypoint of a section
FirstOf(name) ==
    Inner[CHOOSE k \in 1..Len(Inner) :
              /\ Inner[k].sectionName = name
              /\ \A l \in 1..(k - 1) : Inner[l].sectionName # name]

\* C20: the list built from the waypoints has exactly one header item for each
\* distinct non-empty section name among the eligible waypoints and no other
\* header among the waypoints' items; the header is the item of the first
\* eligible waypoint of that name, it comes before every other item of the name,
\* the headers are in the order of their waypoints, and its scrollPx is kmToPx
\* of that waypoint's distance, the offset that resolves back to that distance.
C20_Headers ==
    /\ \A k \in 1..Len(Inner) :
           Inner[k].sectionName # "" =>
               LET name == Inner[k].sectionName
                   mine == {i \in Headers : BuiltItems[i].label = name}
               IN  /\ Cardinality(mine) = 1
                   /\ \A i \in mine :
                          /\ BuiltItems[i].id = <<"poi", FirstOf(name).narrativeId>>
                          /\ BuiltItems[i].scrollPx
                                 = kmToPx(FirstOf(name).distanceAlongPath, scrollMapping)
                          /\ scrollPxToKm(BuiltItems[i].scrollPx, scrollMapping)
                                 = FirstOf(name).distanceAlongPath
                          /\ \A j \in 1..Len(BuiltItems) :
                                 (BuiltItems[j].label = name /\ BuiltItems[j].elementId = "")
                                     => i <= j
    /\ \A i \in Headers :
           \E k \in 1..Len(Inner) : Inner[k].sectionName = BuiltItems[i].label
    /\ \A i, j \in Headers :
           i < j => FirstOf(BuiltItems[i].label).distanceAlongPath
                        <= FirstOf(BuiltItems[j].label).distanceAlongPath

\* a section's name comes back after another section: one header for it, at
\* its first waypoint, and a plain item at its second
C20_Witness ==
    \E i, j, l \in 1..Len(BuiltItems) :
        /\ i < j /\ j < l
        /\ i \in Headers /\ j \in Headers
        /\ BuiltItems[l].label = BuiltItems[i].label
        /\ BuiltItems[l].elementId = ""
        /\ ~BuiltItems[l].isLarge

\* ---- navigation
\* the step is a click: a loop was started
ClickStep == Len(animations') = Len(animations) + 1
\* the loop the click started
Started == animations'[Len(animations')]
\* the active item of the earlier ProgressBar before the step: the last item at
\* or above the offset it holds, the first one if there is none, the last one
\* at the bottom
Reached ==
    {k \in 1..Len(items) :
         \/ effectivePx(items[k], galleryPxs) < pbScrollTop
         \/ /\ effectivePx(items[k], galleryPxs) = pbScrollTop
            /\ (items[k].elementId # "" \/ items[k].frac = 0)}
ActiveBefore ==
    IF atBottom THEN Len(items)
    ELSE IF Reached = {} THEN 1
    ELSE CHOOSE k \in Reached : \A j \in Reached : j <= k

Ticks == {frameLog[i] : i \in 1..Len(frameLog)}
\* x lies between a and b
Between(a, x, b) == (a <= x /\ x <= b) \/ (b <= x /\ x <= a)
\* the value the loop wrote at its tick before, its start if it had not ticked
Previous(a) == IF a.ticks = 0 THEN startOf(a) ELSE written(a)
\* min(elapsed, duration) and the cubic 1 - (1 - t)^3 of t = Elapsed / duration
\* as a fraction, the times in units of 500 ms
Elapsed(a) == Min(a.elapsed, a.duration)
CubicDen(a) ==
    LET d == a.duration \div 500 IN d * d * d
CubicNum(a) ==
    LET r == (a.duration - Elapsed(a)) \div 500 IN CubicDen(a) - r * r * r

\* C22: a tick writes start + (target - start) * (1 - (1 - t)^3) with
\* t = min(elapsed / duration, 1); the value lies between start and target and
\* between the loop's previous value and target; the tick at the first frame
\* with elapsed >= duration writes target and requests no further frame, and
\* no tick before it stops the loop: a loop ticks at most once per FrameMs of
\* its duration.
C22_Animation ==
    \A k \in Ticks :
        LET a == k.after
        IN  /\ a.elapsed > k.before.elapsed
            /\ easeNum(a) * CubicDen(a) = CubicNum(a) * easeDen(a)
            /\ written(a) - startOf(a) = a.dist * easeNum(a)
            /\ Between(startOf(a), written(a), targetOf(a))
            /\ Between(Previous(k.before), written(a), targetOf(a))
            /\ (a.elapsed >= a.duration) = (\A i \in 1..Len(animations) : animations[i] # a)
            /\ (a.elapsed >= a.duration => written(a) = targetOf(a))
            /\ (a.elapsed < a.duration /\ a.dist # 0 => written(a) # targetOf(a))
            /\ a.ticks <= a.duration \div FrameMs

\* a loop over a distance, upwards or downwards, ticked twice or more: its last
\* tick wrote the target and ended it, its tick before wrote a value in between
C22_Witness ==
    \E k \in Ticks :
        /\ k.after.elapsed >= k.after.duration
        /\ k.after.ticks >= 2
        /\ k.after.dist < 0
        /\ Previous(k.before) # startOf(k.before)
        /\ Previous(k.before) # targetOf(k.before)
        /\ animations = <<>>

StartDistance == IF NumPoints = 0 THEN 0 ELSE Dist(1)

\* C24: over at most one waypoint scrollPxToKm gives one distance for every
\* offset, below 0, within the scroll range and past it: the waypoint's
\* distance, 0 when there is none; so does every query of the sweep.
C24_AlwaysAtStart ==
    NumPoints <= 1 =>
        /\ query.km = StartDistance
        /\ \A px \in (0 - PxStride)..(scrollMapping.totalPx + PxStride) :
               scrollPxToKm(px, scrollMapping) = StartDistance

\* a query strictly inside the scroll range of a single waypoint away from the
\* origin
C24_Witness ==
    /\ NumPoints = 1
    /\ Dist(1) > 0
    /\ query.scrollTop > 0
    /\ query.scrollTop < scrollMapping.totalPx
    /\ query.km = Dist(1)

\* C25: over at most one waypoint no waypoint is ever active, no swap timer is
\* ever armed and the content is never visible.
C25_AsClaimed ==
    NumPoints <= 1 =>
        /\ activePoiIndex = null
        /\ pendingTimers = {}
        /\ detailTimerRef = null
        /\ detailVisible = FALSE

\* ---- loader
\* the waypoints of the features whose coordinates are finite, in ascending order
ValidPoints ==
    sort([i \in 1..Len(SelectSeq(features, LAMBDA f : f.coordinates = "finite")) |->
             snap(SelectSeq(features, LAMBDA f : f.coordinates = "finite")[i])])

\* C26: once load has ended over files that were all fetched and parsed, it
\* has completed (onLoaded was called) and the
\* waypoints and the mapping are those of the features with finite coordinates:
\* a feature with a non-finite coordinate was dropped.
C26_AsClaimed ==
    responses = AllOk /\ loadState # "loading" =>
        /\ loadState = "loaded"
        /\ snappedPoints = ValidPoints
        /\ scrollMapping = buildScrollMapping(ValidPoints)

\* the list is in ascending order of distanceAlongPath
Ascending(list) ==
    \A i \in 1..(Len(list) - 1) : list[i].distanceAlongPath <= list[i + 1].distanceAlongPath

\* C27: the list load hands on has the waypoints of all the features in
\* ascending order of distanceAlongPath; from then on no step changes it, and
\* the mapping and the navigation items are those built over that list.
C27_SortedForGood ==
    [][/\ (loadState = "loading" /\ loadState' = "loaded" =>
              /\ Ascending(snappedPoints')
              /\ Len(snappedPoints') = Len(features)
              /\ \A i \in 1..Len(features) :
                     \E k \in 1..Len(snappedPoints') : snappedPoints'[k] = snap(features[i])
              /\ scrollMapping' = buildScrollMapping(snappedPoints')
              /\ Ascending([k \in 1..Len(scrollMapping'.kmSamples) |->
                               [distanceAlongPath |-> scrollMapping'.kmSamples[k]]])
              /\ items' = progressItems(snappedPoints', scrollMapping'))
       /\ (loadState = "loaded" =>
              /\ snappedPoints' = snappedPoints
              /\ scrollMapping' = scrollMapping
              /\ items' = items)]_vars

\* three features in descending order of their locations were loaded, the
\* page was scrolled and a waypoint of the sorted list is active
C27_Witness ==
    /\ loadState = "loaded"
    /\ Len(features) = 3
    /\ features[1].location > features[2].location
    /\ features[2].location > features[3].location
    /\ snappedPoints[1] = snap(features[3])
    /\ scrollTop > 0
    /\ activePoiIndex = 2

\* ---- tail
\* the pixel kmToPx gives for the last waypoint's distance
LastWaypointPx == kmToPx(Dist(NumPoints), scrollMapping)

\* C28: over at least one waypoint totalPx is the last pxCumulative entry plus
\* half of BASE_PX_PER_KM; the last waypoint's pixel is that last entry,
\* strictly before the end of the scroll range, and every offset of the tail,
\* from that pixel to the end of the range and past it, resolves to the last
\* waypoint's distance.
C28_Tail ==
    NumPoints >= 1 =>
        /\ 2 * (scrollMapping.totalPx - LastPx) = BASE_PX_PER_KM
        /\ LastWaypointPx = LastPx
        /\ LastWaypointPx < scrollMapping.totalPx
        /\ \A px \in LastPx..(scrollMapping.totalPx + PxStride) :
               scrollPxToKm(px, scrollMapping) = Dist(NumPoints)
        /\ (query.scrollTop >= LastPx => query.km = Dist(NumPoints))

\* a query strictly inside the tail of a journey of several waypoints
C28_Witness ==
    /\ NumPoints >= 3
    /\ query.scrollTop > LastPx
    /\ query.scrollTop < scrollMapping.totalPx
    /\ query.km = Dist(NumPoints)

\* ---- navigation and the active item
\* the loop whose tick wrote last in the last frame
LastTick == frameLog[Len(frameLog)].after
\* a navigation to a waypoint's item has finished: its loop wrote its target in
\* the last frame and ended, no other loop is running, and ProgressBar holds
\* the offset the scroller reports
Landed ==
    /\ frameLog # <<>>
    /\ animations = <<>>
    /\ stops(LastTick)
    /\ items[LastTick.idx].elementId = ""
    /\ pbScrollTop = scrollTop
\* the item navigated to and its position, in parts of a pixel
Target == items[LastTick.idx]
TargetSub == Target.scrollPx * PxSub + Target.frac
\* the items of the list after the target that lie within a pixel past the
\* offset the scroller reports
CloseAfter ==
    {k \in (LastTick.idx + 1)..Len(items) :
         passes(pbScrollTop + 1, items[k], galleryPxs)}

\* C30 as claimed: after a navigation to a waypoint's item has finished, the
\* scroller not at its maximum extent, that item is the active item, whatever
\* the list.
C30_AsClaimed ==
    Landed /\ scrollTop < MaxScrollTop(scrollMapping) /\ ~atBottom
        => activeIndex(items, pbScrollTop, atBottom, galleryPxs) = LastTick.idx

\* C30: after a navigation to a waypoint's item has finished, the scroller
\* reports the item's position truncated to a whole pixel, at most one pixel
\* short of it, and with the epsilon of 1 px the item counts as reached; unless
\* at the bottom, the active item is the last item of the list reached, which is
\* the item navigated to if no later item lies within a pixel past the offset
\* reported.
C30_NavigateReached ==
    Landed =>
        /\ pbScrollTop * PxSub <= TargetSub
        /\ TargetSub < (pbScrollTop + 1) * PxSub
        /\ passes(pbScrollTop + 1, Target, galleryPxs)
        /\ (~atBottom =>
               /\ activeIndex(items, pbScrollTop, atBottom, galleryPxs) >= LastTick.idx
               /\ (CloseAfter = {}
                      => activeIndex(items, pbScrollTop, atBottom, galleryPxs) = LastTick.idx)
               /\ (CloseAfter # {}
                      => activeIndex(items, pbScrollTop, atBottom, galleryPxs) \in CloseAfter))

\* a navigation to an item at a fractional position has finished, the offset
\* reported is short of the position, and the item is the active one
C30_Witness ==
    /\ Landed
    /\ ~atBottom
    /\ Target.frac > 0
    /\ pbScrollTop * PxSub < TargetSub
    /\ LastTick.idx >= 2
    /\ LastTick.ticks >= 2
    /\ activeIndex(items, pbScrollTop, atBottom, galleryPxs) = LastTick.idx

InitFair ==
    /\ snappedPoints \in NavJourneys \cup LongJourneys
    /\ Mounted
    /\ query = resolve(0, snappedPoints, scrollMapping)
    /\ items = progressItems(snappedPoints, scrollMapping)
    /\ ProgressMounted
    /\ Loaded
\* the engine with the browser's guarantee for timeouts: a pending timeout
\* that is not cleared fires
FairSpec == InitFair /\ [][Next]_vars /\ WF_vars(SwapTimer)

\* waypoint x is displayed and its content visible
Shown(x) == displayedPoi = x /\ detailVisible = TRUE

C33_SectionOfActive ==
    query.newActive # null /\ snappedPoints[query.newActive].sectionName # ""
        => /\ query.newSectionVisible = TRUE
           /\ query.newSectionName = snappedPoints[query.newActive].sectionName

\* a distance inside the windows of two neighbouring waypoints of different
\* sections: the first is active and its section the visible one
C33_Witness ==
    /\ query.newActive # null
    /\ query.newActive + 1 <= lastIdx(snappedPoints)
    /\ snappedPoints[query.newActive].sectionName = "A"
    /\ snappedPoints[query.newActive + 1].sectionName = "B"
    /\ Abs(query.km - Dist(query.newActive + 1)) <= Window
    /\ query.newSectionName = "A"

\* ---- overlapping navigations
\* C34: a second navigation ends the loop of the one before: in no frame two
\* loops write the offset, and when the last loop has ended the loop that wrote
\* last is the one of the last click.
C34_AsClaimed ==
    /\ Len(frameLog) <= 1
    /\ (frameLog # <<>> /\ animations = <<>>
            => frameLog[Len(frameLog)].after.click = clicks)

\* ---- unmount
\* C35: after the unmount no handle of the engine is outstanding: no frame is
\* pending and no swap timer is pending.
C35_AsClaimed ==
    loadState = "unmounted" => pendingFrames = {} /\ pendingTimers = {}

\* ---- the resolution after a burst of scroll events
\* the engine over the journeys with tied waypoints and the scenario's; the
\* browser runs the callback of a requested frame at the next repaint of the
\* page
InitFrames ==
    /\ snappedPoints \in NavJourneys
    /\ Mounted
    /\ query = resolve(0, snappedPoints, scrollMapping)
    /\ items = progressItems(snappedPoints, scrollMapping)
    /\ ProgressMounted
    /\ Loaded
SpecFrames == InitFrames /\ [][Next]_vars /\ WF_vars(Frame)

\* the state of the engine is the resolution of the scroller's offset
UpToDate ==
    LET r == resolve(scrollTop, snappedPoints, scrollMapping)
    IN  /\ activePoiIndex = r.newActive
        /\ sectionVisible = r.newSectionVisible
        /\ currentSectionName = r.newSectionName

\* C36: a frame requested by a scroll event is eventually run or replaced and
\* run, and once a scroll event has been seen and no frame is pending the
\* resolved state is the resolution of the offset the scroller has: the frame
\* read the offset when it ran, not when it was requested.
C36_ResolvedAfterBurst ==
    /\ [](rafRef # null /\ pendingFrames = {} => UpToDate)
    /\ (pendingFrames # {}) ~> (pendingFrames = {})

\* a burst (the last event replaced a pending frame) has been resolved to an
\* offset with an active waypoint
C36_Witness ==
    /\ replacedFrame = TRUE
    /\ pendingFrames = {}
    /\ scrollTop > 0
    /\ activePoiIndex # null

\* ---- the rendered list of the progress index
\* the places in the item list of the section headers, and of those whose
\* position is at most scrollTop + 1
HeaderItems == {i \in 1..Len(items) : items[i].parentId = NoId /\ items[i].elementId = ""}
HeadersReached ==
    {i \in HeaderItems :
         \/ items[i].scrollPx < pbScrollTop + 1
         \/ (items[i].scrollPx = pbScrollTop + 1 /\ items[i].frac = 0)}
\* the id of the last header reached, of the first header when none is
ActiveSection ==
    IF HeadersReached # {}
    THEN items[CHOOSE i \in HeadersReached : \A j \in HeadersReached : j <= i].id
    ELSE IF HeaderItems # {}
    THEN items[CHOOSE i \in HeaderItems : \A j \in HeaderItems : i <= j].id
    ELSE NoId
Rendered(i) == \E k \in 1..Len(Visible) : Visible[k].id = items[i].id

\* C37: an item with a parentId is rendered iff its parentId is the id of the
\* active section (the last header, in list order, with scrollPx <= scrollTop
\* + 1, the first header when there is none); headers and anchor items are
\* rendered in every state, in the order of the list; the active index is an
\* index of the rendered list.
C37_VisibleItems ==
    /\ \A i \in 1..Len(items) :
           /\ items[i].parentId # NoId => (Rendered(i) <=> items[i].parentId = ActiveSection)
           /\ i \in HeaderItems \/ items[i].elementId # "" => Rendered(i)
    /\ \A k, l \in 1..Len(Visible) :
           k < l => \E i, j \in 1..Len(items) :
                        i < j /\ items[i] = Visible[k] /\ items[j] = Visible[l]
    /\ ActiveIndex \in 1..Len(Visible)

\* the scroller is in a section other than the parent of a subsection item,
\* which is not rendered, and the active item is not the first
C37_Witness ==
    /\ \E i \in 1..Len(items) : items[i].parentId # NoId /\ ~Rendered(i)
    /\ \E i \in 1..Len(items) : items[i].parentId # NoId /\ items[i].parentId # ActiveSection
    /\ ActiveIndex > 1

\* ---- the hand-over of the loaded data
\* onLoaded has been called: App holds the data and renders MapJourney
Handed == loadState \in {"loaded", "unmounted"}
\* MapJourney has never been mounted: no waypoint list, no scroll event seen
NeverMounted ==
    /\ snappedPoints = <<>>
    /\ rafRef = null
    /\ pendingFrames = {}
    /\ pendingTimers = {}
    /\ scrollTop = 0

\* C38: onLoaded is called only by a load that found every file fetched with
\* an ok status and parsed, with the points snapped and sorted and the progress
\* at 100, and once called it is not called again; a load over a file that was
\* not fetched or not parsed ends in the error state and nowhere else, and in
\* the error state the journey was never mounted and never is.
C38_HandOver ==
    /\ [](Handed => responses = AllOk /\ progress = 100)
    /\ [](responses # AllOk => loadState \in {"loading", "error"})
    /\ [](loadState \in {"loading", "error"} => NeverMounted)
    /\ [](loadState = "loading" => progress = 0)
    /\ [](loadState = "error" => progress < 100)
    /\ [][loadState = "error" => loadState' = "error"]_vars
    /\ [][Handed => Handed' /\ features' = features]_vars
    /\ [][~Handed /\ Handed' =>
              /\ loadState = "loading"
              /\ Len(snappedPoints') = Len(features)
              /\ Ascending(snappedPoints')]_vars

\* load ended in the error state over features that could all be snapped,
\* because one file was not fetched with an ok status
C38_Witness ==
    /\ loadState = "error"
    /\ \E f \in Files : responses[f] = "notOk"
    /\ Len(features) = MaxFeatures
    /\ \A i \in 1..Len(features) : features[i].coordinates = "finite"

\* ---- the heading of the position marker
\* the pair is placed evenly about the distance, but for an end held at a
\* bound of the path
Symmetric(c) ==
    /\ 0 <= c.km1 /\ c.km1 <= c.km2 /\ c.km2 <= totalDistance
    /\ c.km1 = c.km - delta \/ c.km1 = 0
    /\ c.km2 = c.km + delta \/ c.km2 = totalDistance

\* C39: a heading computed at a scroll offset is taken between two distances
\* placed evenly about the current one, each held within the path; the heading
\* the first resolution at offset 0 gives is taken between the same two
\* distances as the one set when the map loaded.
C39_AsClaimed ==
    /\ cursor.by = "scroll" => Symmetric(cursor)
    /\ cursor.by = "scroll" /\ query.scrollTop = 0
           => /\ cursor.km1 = initBearing(snappedPoints, totalDistance).km1
              /\ cursor.km2 = initBearing(snappedPoints, totalDistance).km2

====
